---- MODULE Spec2Model ----
(***************************************************************************)
(* Model of the hyperpack bundling core:                                   *)
(*   - src/bundler/bundler.rs          recursive bundler (main)           *)
(*   - src/bundler/explicit-bundler.rs worker-pool bundler (Bundler)       *)
(*   - src/bundler/treeshake.rs        tree_shaker, detect_cycles          *)
(*   - src/bundler/splitter.rs         split_code, write_manifest          *)
(*   - src/sourcemap.rs                source-map documents                *)
(*   - src/resolver.rs                 resolve_path                        *)
(*   - src/cache.rs                    WebCache                            *)
(*   - src/hotreload.rs                the file watcher's main loop        *)
(* A file's text is a sequence of tokens: import statements, the file's    *)
(* own body, newlines, chunk-load calls and path comments.                 *)
(***************************************************************************)
EXTENDS Integers, Sequences, FiniteSets, TLC

\* ------------------------------------------------------------------------
\* Bounds of the model
\* ------------------------------------------------------------------------
\* import statements in one file
MaxImports == 2
\* import statements in the whole project
MaxTotalImports == 3
\* largest configured worker count
MaxThreads == 2
\* number of consecutive builds on the same input
NumRuns == 2

\* file names of the project directory, in alphabetical (glob) order
NameOrder == <<"a", "b", "c">>
Names == {NameOrder[i] : i \in 1..Len(NameOrder)}

\* the content of a file that does not exist
NoFile == <<<<"nofile">>>>

VARIABLES
    \* --- inputs -----------------------------------------------------------
    fs,               \* the project directory: name -> [status, imports]
    hasDir,           \* the glob pattern has a directory prefix
    pattern,          \* the files the glob pattern matches
    kind,             \* the extension of each file of the project directory
    run,              \* number of the build being run
    \* --- bundler.rs -------------------------------------------------------
    bPc,              \* position of main: idle, main, done, error
    entries,          \* paths yielded by glob(input_pattern)
    bIdx,             \* index of the glob entry main is at
    seen_files,       \* main's seen_files
    bundled_code,     \* main's bundled_code
    bStack,           \* call stack of bundle_js_file frames
    expandedB,        \* how many times each file's imports were expanded
    bOut,             \* content of the output file, or NoFile
    bPrevOut,         \* output file of the previous build
    \* --- treeshake.rs -----------------------------------------------------
    tsPc,             \* position of tree_shaker: idle, loop, done
    nodes,            \* the graph: id -> dependencies
    entry_points,     \* the entry ids
    reachable,        \* tree_shaker's reachable
    to_visit,         \* tree_shaker's to_visit
    expandedT,        \* how many times each id's dependencies were expanded
    pruned_nodes,     \* main's pruned_nodes
    \* --- explicit-bundler.rs ----------------------------------------------
    max_threads,      \* config.max_threads
    code_splitting,   \* config.code_splitting
    generate_sourcemaps, \* config.generate_sourcemaps
    mainPc,           \* position of Bundler::bundle
    joinIdx,          \* the worker bundle is joining
    txAlive,          \* bundle's Sender `tx` has not been dropped
    queue,            \* tasks sent on tx and not yet received
    wpc,              \* position of each worker thread
    wtask,            \* the locals of the task each worker is processing
    cache,            \* Bundler::cache
    dependency_graph, \* Bundler::dependency_graph
    transformed,      \* the paths plugins.load was called with, in order
    inserted,         \* the paths inserted into the cache, in order
    mapped,           \* the paths add_mapping was called with, in order
    errors,           \* the task errors the workers reported
    eOut,             \* content of config.output_file, or NoFile
    eMapOut,          \* content of config.sourcemap_file, or NoFile
    \* --- splitter.rs ------------------------------------------------------
    sPc,              \* position of main: idle, start, split, manifest, ...
    split_seen,       \* main's seen_files
    chunk_metadata,   \* main's chunk_metadata
    sStack,           \* call stack of split_code frames
    dist,             \* the files of the output directory: path -> content
    manifest,         \* content of manifest.txt, or NoFile
    sPrev,            \* output directory and manifest of the previous build
    sWrites,          \* the paths File::create was called with, in order
    \* --- sourcemap.rs -----------------------------------------------------
    smPc,             \* the function being run and its position
    genArgs,          \* sources, sources_content and names given to generate
    mappings,         \* the Vec<Mapping> given to generate_mappings_string
    mapFile,          \* the document in the map file, or NoDoc
    maps,             \* the documents given to merge_source_maps
    verdict,          \* what validate_source_map returned
    compressedFile,   \* the document in the compressed map file, or NoDoc
    \* --- resolver.rs ------------------------------------------------------
    rPc,              \* position of resolve_path
    r_import_path,    \* the import reference to resolve
    config,           \* the configuration file, or NoConfig
    rfs,              \* the files next to the resolved path, by extension
    env_path,         \* RESOLVED_PATH: unset, or the kind of file it names
    r_resolved_path,  \* resolve_path's resolved_path
    resolved,         \* the string resolve_path returned
    \* --- bundler.rs: the import patterns -----------------------------------
    scanPc,           \* position of the scan of one file: idle, start, done
    scanKind,         \* the extension of the file being scanned
    scanCode,         \* the statements of the file being scanned
    scanned,          \* the import paths the pattern captured, in order
    \* --- resolver.rs: calls from several workers --------------------------
    callPc,           \* position of each worker's call of resolve_path
    call_import_path, \* the import reference each worker resolves
    call_resolved_path, \* each call's resolved_path
    call_resolved,    \* the string each call returned
    \* --- treeshake.rs: detect_cycles --------------------------------------
    dcPc,             \* position of detect_cycles: idle, loop, done
    dcKeys,           \* the keys of nodes the outer loop has not reached yet
    dcFrames,         \* call stack of visit frames
    cycle_visited,    \* detect_cycles' visited
    cycle_stack,      \* detect_cycles' stack
    cycles,           \* detect_cycles' cycles
    \* --- cache.rs ---------------------------------------------------------
    web_cache,        \* WebCache::cache: the entries [url, body, timestamp]
    history,          \* WebCache::history
    capacity,         \* WebCache::capacity
    ttl,              \* WebCache::ttl
    cleanup_running,  \* WebCache::cleanup_running
    cleanup_threads,  \* number of cleanup threads spawned
    now,              \* the clock Instant::now reads
    cache_lock,       \* the thread that holds the cache and history mutexes
    running_lock,     \* the thread that holds the cleanup_running mutex
    poisoned,         \* a thread panicked while it held the cache mutex
    wcPc,             \* position of each thread that uses the WebCache
    wcUrl,            \* the url of the fetch each thread is in
    wcRet,            \* the body each thread's last fetch returned
    requests,         \* number of network requests sent, by url
    wcCalls,          \* number of WebCache methods called so far
    wcLast,           \* the WebCache method that changed the cache last
    \* --- hotreload.rs -----------------------------------------------------
    hrPc,             \* position of main: idle, check, recv, exited, panicked
    running,          \* the flag setup_signal_handling returned
    signals,          \* SIGINTs delivered that the signal thread has not seen
    delivered,        \* number of SIGINTs delivered to the process
    events,           \* the events sent on tx and not yet received
    sent,             \* number of events the watcher has sent
    command,          \* what the *_COMMAND variables name
    watch_log         \* the events written to the log file, in order

bundlerVars == <<bPc, entries, bIdx, seen_files, bundled_code, bStack,
                 expandedB, bOut, bPrevOut>>
shakeVars == <<tsPc, nodes, entry_points, reachable, to_visit, expandedT,
               pruned_nodes>>
explicitVars == <<max_threads, code_splitting, generate_sourcemaps, mainPc,
                  joinIdx, txAlive, queue, wpc, wtask, cache, dependency_graph,
                  transformed, inserted, mapped, errors, eOut, eMapOut>>
splitVars == <<sPc, split_seen, chunk_metadata, sStack, dist, manifest, sPrev,
               sWrites>>
mapVars == <<smPc, genArgs, mappings, mapFile, maps, verdict, compressedFile>>
resolveVars == <<rPc, r_import_path, config, rfs, env_path, r_resolved_path,
                 resolved>>
cycleVars == <<dcPc, dcKeys, dcFrames, cycle_visited, cycle_stack, cycles>>
callVars == <<callPc, call_import_path, call_resolved_path, call_resolved>>
scanVars == <<scanPc, scanKind, scanCode, scanned>>
watchVars == <<hrPc, running, signals, delivered, events, sent, command,
               watch_log>>
webVars == <<web_cache, history, capacity, ttl, cleanup_running,
             cleanup_threads, now, cache_lock, running_lock, poisoned, wcPc,
             wcUrl, wcRet, requests, wcCalls, wcLast>>
inputVars == <<fs, hasDir, pattern, kind>>

\* ------------------------------------------------------------------------
\* The file system
\* ------------------------------------------------------------------------
ImportLists == UNION {[1..n -> Names] : n \in 0..MaxImports}

\* a file that can be read, one that exists but cannot be read (permission
\* denied, a directory), and no file
FileRecs ==
    {[status |-> "ok", imports |-> l] : l \in ImportLists}
    \cup {[status |-> "unreadable", imports |-> <<>>],
          [status |-> "missing", imports |-> <<>>]}

RECURSIVE SumLen(_, _)
SumLen(f, S) ==
    IF S = {} THEN 0
    ELSE LET n == CHOOSE x \in S : TRUE
         IN Len(f[n].imports) + SumLen(f, S \ {n})

FileSystems ==
    {f \in [Names -> FileRecs] :
        /\ SumLen(f, Names) <= MaxTotalImports
        /\ Cardinality({n \in Names : f[n].status # "ok"}) <= 1}

Range(s) == {s[i] : i \in 1..Len(s)}

RECURSIVE Count(_, _)
Count(x, s) ==
    IF s = <<>> THEN 0
    ELSE (IF Head(s) = x THEN 1 ELSE 0) + Count(x, Tail(s))

\* tokens of file text
ImportStmt(t) == <<"import", t>>
Body(n) == <<"body", n>>
Newline == <<"nl">>

\* fs::read_to_string of an existing readable file: its import statements
\* in order, then its own text
FileText(n) ==
    [i \in 1..Len(fs[n].imports) |-> ImportStmt(fs[n].imports[i])]
        \o <<Body(n)>>

\* the files a file imports: the targets of its import statements that exist
ImportsOf(n) ==
    IF fs[n].status = "ok"
    THEN {t \in Range(fs[n].imports) : fs[t].status # "missing"}
    ELSE {}

RECURSIVE Closure(_)
Closure(S) ==
    LET T == S \cup UNION {ImportsOf(n) : n \in S}
    IN IF T = S THEN S ELSE Closure(T)

\* Path::exists
Exists(p) == fs[p.name].status # "missing"
\* fs::read_to_string(path) succeeds
Readable(p) == fs[p.name].status = "ok"

\* str::replace: every occurrence of the statement is replaced
RECURSIVE Replace(_, _, _)
Replace(code, stmt, repl) ==
    IF code = <<>> THEN <<>>
    ELSE (IF Head(code) = stmt THEN repl ELSE <<Head(code)>>)
            \o Replace(Tail(code), stmt, repl)

\* path.parent().unwrap().join(import_path) for an import "./t", as the
\* identity PathBuf's Eq/Hash give it: a "." inside a path is normalised
\* away (src/./t = src/t), a leading "." is kept (./t # t).
ImportFullPath(path, t) == [dot |-> ~hasDir, name |-> t]

\* glob yielding the paths in an order that changes from build to build
GlobEntriesUnsorted(matches) ==
    LET s == SelectSeq(NameOrder, LAMBDA n : n \in matches)
    IN [i \in 1..Len(s) |->
          [dot |-> FALSE,
           name |-> s[IF run = 1 THEN i ELSE Len(s) + 1 - i]]]

\* glob(input_pattern): matching paths in alphabetical order
GlobEntries(matches) ==
    LET s == SelectSeq(NameOrder, LAMBDA n : n \in matches)
    IN [i \in 1..Len(s) |-> [dot |-> FALSE, name |-> s[i]]]

\* the programs that are not running
IdleBundler ==
    /\ bPc = "idle" /\ entries = <<>> /\ bIdx = 1 /\ seen_files = {}
    /\ bundled_code = <<>> /\ bStack = <<>>
    /\ expandedB = [n \in Names |-> 0]
    /\ bOut = NoFile /\ bPrevOut = NoFile

IdleShake ==
    /\ tsPc = "idle" /\ nodes = <<>> /\ entry_points = <<>>
    /\ reachable = {} /\ to_visit = <<>>
    /\ expandedT = [n \in Names |-> 0]
    /\ pruned_nodes = <<>>

Workers == 1..MaxThreads
NoTask == [file_path |-> <<>>, visited |-> {}, bundle_content |-> <<>>,
           content |-> <<>>, caps |-> <<>>, imports |-> <<>>]

IdleExplicit ==
    /\ max_threads = 0 /\ code_splitting = FALSE /\ generate_sourcemaps = FALSE
    /\ mainPc = "idle" /\ joinIdx = 1 /\ txAlive = FALSE /\ queue = <<>>
    /\ wpc = [w \in Workers |-> "unspawned"]
    /\ wtask = [w \in Workers |-> NoTask]
    /\ cache = <<>> /\ dependency_graph = <<>>
    /\ transformed = <<>> /\ inserted = <<>> /\ mapped = <<>> /\ errors = <<>>
    /\ eOut = NoFile /\ eMapOut = NoFile

NoOutput == [dist |-> <<>>, manifest |-> NoFile]

IdleSplit ==
    /\ sPc = "idle" /\ split_seen = {} /\ chunk_metadata = <<>>
    /\ sStack = <<>> /\ dist = <<>> /\ manifest = NoFile
    /\ sPrev = NoOutput /\ sWrites = <<>>

\* JSON values: a number is kept as its text, a string as its tokens, an
\* array as the sequence of its elements (strings)
JNull == [t |-> "null", v |-> <<>>]
JNumber(text) == [t |-> "number", v |-> <<text>>]
JString(tokens) == [t |-> "string", v |-> tokens]
JArray(elems) == [t |-> "array", v |-> elems]

\* no document: the file does not exist
NoDoc == [none |-> JNull]
NoArgs == [sources |-> <<>>, sources_content |-> <<>>, names |-> <<>>]

IdleMaps ==
    /\ smPc = "idle" /\ genArgs = NoArgs /\ mappings = <<>>
    /\ mapFile = NoDoc /\ maps = <<>> /\ verdict = "none"
    /\ compressedFile = NoDoc

\* a path: its directory, the dot-separated parts of the file name before
\* the extension, the extension, and whether it is in canonical form;
\* NoPath is the empty path, whose string is ""
NoPath == [dir |-> "", stem |-> <<>>, ext |-> "", canonical |-> FALSE]
\* a configuration file that cannot be read or parsed
NoConfig == [loaded |-> FALSE, paths |-> "", extensions |-> <<>>]
NoImport == [form |-> "", ext |-> "", fragment |-> ""]

IdleResolve ==
    /\ rPc = "idle" /\ r_import_path = NoImport /\ config = NoConfig
    /\ rfs = <<>> /\ env_path = "unset" /\ r_resolved_path = NoPath
    /\ resolved = NoPath

IdleCycles ==
    /\ dcPc = "idle" /\ dcKeys = <<>> /\ dcFrames = <<>>
    /\ cycle_visited = {} /\ cycle_stack = {} /\ cycles = {}

\* the workers that call resolve_path
Callers == {"w1", "w2"}

\* the threads that share a WebCache, and the urls they fetch
WebThreads == {"t1", "t2"}
Urls == {"u", "v"}

IdleWatch ==
    /\ hrPc = "idle" /\ running = FALSE /\ signals = 0 /\ delivered = 0
    /\ events = <<>> /\ sent = 0 /\ command = "" /\ watch_log = <<>>

IdleWeb ==
    /\ web_cache = {} /\ history = <<>> /\ capacity = 0 /\ ttl = 0
    /\ cleanup_running = FALSE /\ cleanup_threads = 0 /\ now = 0
    /\ cache_lock = "free" /\ running_lock = "free" /\ poisoned = FALSE
    /\ wcPc = [t \in WebThreads |-> "idle"]
    /\ wcUrl = [t \in WebThreads |-> ""]
    /\ wcRet = [t \in WebThreads |-> <<>>]
    /\ requests = [u \in Urls |-> 0]
    /\ wcCalls = 0 /\ wcLast = ""

IdleCalls ==
    /\ callPc = [w \in Callers |-> "idle"]
    /\ call_import_path = [w \in Callers |-> NoImport]
    /\ call_resolved_path = [w \in Callers |-> NoPath]
    /\ call_resolved = [w \in Callers |-> NoPath]

IdleScan ==
    /\ scanPc = "idle" /\ scanKind = "" /\ scanCode = <<>> /\ scanned = <<>>

\* every file of the project directory is a JavaScript file
AllJs == [n \in Names |-> "js"]

NoFs == [n \in Names |-> [status |-> "missing", imports |-> <<>>]]

\* ------------------------------------------------------------------------
\* bundler.rs
\* ------------------------------------------------------------------------
BundlerStart ==
    /\ bPc = "start"
    /\ entries = <<>>
    /\ bIdx = 1
    /\ seen_files = {}
    /\ bundled_code = <<>>
    /\ bStack = <<>>
    /\ expandedB = [n \in Names |-> 0]
    /\ bOut = NoFile

\* the glob pattern matches every file of the directory, or names one file
Patterns ==
    {m \in {{n \in Names : fs[n].status # "missing"}, {"a"}} :
        \A n \in m : fs[n].status # "missing"}

InitBundler ==
    /\ fs \in FileSystems
    /\ hasDir \in BOOLEAN
    /\ pattern \in Patterns
    /\ run = 1
    /\ kind = AllJs
    /\ BundlerStart
    /\ bPrevOut = NoFile
    /\ IdleShake
    /\ IdleExplicit
    /\ IdleSplit
    /\ IdleMaps
    /\ IdleResolve
    /\ IdleScan
    /\ IdleCalls
    /\ IdleCycles
    /\ IdleWeb
    /\ IdleWatch

Frame(p) ==
    [path |-> p, caps |-> fs[p.name].imports, modified_code |-> FileText(p.name)]

\* main evaluates glob(input_pattern)
BGlob ==
    /\ bPc = "start"
    /\ entries' = GlobEntries(pattern)
    /\ bPc' = "main"
    /\ UNCHANGED <<bIdx, seen_files, bundled_code, bStack, expandedB, bOut,
                   bPrevOut, run>>
    /\ UNCHANGED <<inputVars, shakeVars, explicitVars, splitVars, mapVars, resolveVars, scanVars, callVars, cycleVars, webVars, watchVars>>

\* main calls bundle_js_file on the next glob entry
BMainCall ==
    /\ bPc = "main" /\ bStack = <<>> /\ bIdx <= Len(entries)
    /\ LET p == entries[bIdx] IN
         IF p \in seen_files
         THEN /\ bIdx' = bIdx + 1
              /\ UNCHANGED <<bPc, seen_files, bStack, expandedB>>
         ELSE /\ seen_files' = seen_files \cup {p}
              /\ IF Readable(p)
                 THEN /\ bStack' = <<Frame(p)>>
                      /\ expandedB' = [expandedB EXCEPT ![p.name] = @ + 1]
                      /\ UNCHANGED bPc
                 ELSE /\ bPc' = "error"
                      /\ UNCHANGED <<bStack, expandedB>>
              /\ UNCHANGED bIdx
    /\ UNCHANGED <<entries, bundled_code, bOut, bPrevOut, run>>
    /\ UNCHANGED <<inputVars, shakeVars, explicitVars, splitVars, mapVars, resolveVars, scanVars, callVars, cycleVars, webVars, watchVars>>

\* one iteration of the loop over re.captures_iter(&code)
BImport ==
    /\ bPc = "main" /\ bStack # <<>> /\ Head(bStack).caps # <<>>
    /\ LET top == Head(bStack)
           t == Head(top.caps)
           p == ImportFullPath(top.path, t)
       IN
         IF ~Exists(p)
         THEN /\ bStack' = <<[top EXCEPT !.caps = Tail(@)]>> \o Tail(bStack)
              /\ UNCHANGED <<bPc, seen_files, expandedB>>
         ELSE IF p \in seen_files
         THEN /\ bStack' = <<[top EXCEPT
                               !.caps = Tail(@),
                               !.modified_code = Replace(@, ImportStmt(t), <<>>)]>>
                           \o Tail(bStack)
              /\ UNCHANGED <<bPc, seen_files, expandedB>>
         ELSE /\ seen_files' = seen_files \cup {p}
              /\ IF Readable(p)
                 THEN /\ bStack' = <<Frame(p)>> \o bStack
                      /\ expandedB' = [expandedB EXCEPT ![p.name] = @ + 1]
                      /\ UNCHANGED bPc
                 ELSE /\ bPc' = "error"
                      /\ bStack' = <<>>
                      /\ UNCHANGED expandedB
    /\ UNCHANGED <<entries, bIdx, bundled_code, bOut, bPrevOut, run>>
    /\ UNCHANGED <<inputVars, shakeVars, explicitVars, splitVars, mapVars, resolveVars, scanVars, callVars, cycleVars, webVars, watchVars>>

\* bundle_js_file returns Ok(bundled_code)
BReturn ==
    /\ bPc = "main" /\ bStack # <<>> /\ Head(bStack).caps = <<>>
    /\ LET ret == Head(bStack).modified_code \o <<Newline>>
           rest == Tail(bStack)
       IN
         IF rest = <<>>
         THEN /\ bundled_code' = bundled_code \o ret
              /\ bIdx' = bIdx + 1
              /\ bStack' = <<>>
         ELSE /\ bStack' =
                    <<[Head(rest) EXCEPT
                        !.caps = Tail(@),
                        !.modified_code =
                            Replace(@, ImportStmt(Head(Head(rest).caps)), ret)]>>
                    \o Tail(rest)
              /\ UNCHANGED <<bundled_code, bIdx>>
    /\ UNCHANGED <<bPc, entries, seen_files, expandedB, bOut, bPrevOut, run>>
    /\ UNCHANGED <<inputVars, shakeVars, explicitVars, splitVars, mapVars, resolveVars, scanVars, callVars, cycleVars, webVars, watchVars>>

\* main writes the output file
BWrite ==
    /\ bPc = "main" /\ bStack = <<>> /\ bIdx > Len(entries)
    /\ bOut' = bundled_code
    /\ bPc' = "done"
    /\ UNCHANGED <<entries, bIdx, seen_files, bundled_code, bStack, expandedB,
                   bPrevOut, run>>
    /\ UNCHANGED <<inputVars, shakeVars, explicitVars, splitVars, mapVars, resolveVars, scanVars, callVars, cycleVars, webVars, watchVars>>

\* the build is run again on the unchanged input
BRerun ==
    /\ bPc \in {"done", "error"} /\ run < NumRuns
    /\ run' = run + 1
    /\ bPrevOut' = bOut
    /\ bPc' = "start"
    /\ entries' = <<>>
    /\ bIdx' = 1
    /\ seen_files' = {}
    /\ bundled_code' = <<>>
    /\ bStack' = <<>>
    /\ expandedB' = [n \in Names |-> 0]
    /\ bOut' = NoFile
    /\ UNCHANGED <<inputVars, shakeVars, explicitVars, splitVars, mapVars, resolveVars, scanVars, callVars, cycleVars, webVars, watchVars>>

NextBundler == BGlob \/ BMainCall \/ BImport \/ BReturn \/ BWrite \/ BRerun

\* ------------------------------------------------------------------------
\* treeshake.rs
\* ------------------------------------------------------------------------
\* number of entry points
MaxEntries == 2

Graphs ==
    UNION {[D -> SUBSET Names] : D \in SUBSET Names}

EntryLists == UNION {[1..n -> Names] : n \in 0..MaxEntries}

\* the orders in which a HashSet may be iterated
Orders(S) ==
    {o \in [1..Cardinality(S) -> S] :
        \A i, j \in 1..Cardinality(S) : i # j => o[i] # o[j]}

InitShake ==
    /\ nodes \in Graphs
    /\ entry_points \in EntryLists
    /\ tsPc = "loop"
    /\ reachable = {}
    /\ to_visit = entry_points
    /\ expandedT = [n \in Names |-> 0]
    /\ pruned_nodes = <<>>
    /\ fs = NoFs /\ hasDir = FALSE /\ pattern = {} /\ run = 1
    /\ kind = AllJs
    /\ IdleBundler
    /\ IdleExplicit
    /\ IdleSplit
    /\ IdleMaps
    /\ IdleResolve
    /\ IdleScan
    /\ IdleCalls
    /\ IdleCycles
    /\ IdleWeb
    /\ IdleWatch

\* an iteration that stops at the first dependency it pushes
PushedFirst(order, reach) ==
    LET s == SelectSeq(order, LAMBDA d : d \notin reach)
    IN IF s = <<>> THEN <<>> ELSE <<s[1]>>

\* the dependencies one iteration pushes, in the order the set is iterated
Pushed(order, reach) == SelectSeq(order, LAMBDA d : d \notin reach)

\* one iteration of `while let Some(id) = to_visit.pop()`
TsVisit ==
    /\ tsPc = "loop" /\ to_visit # <<>>
    /\ LET id == to_visit[Len(to_visit)]
           rest == SubSeq(to_visit, 1, Len(to_visit) - 1)
       IN
         IF id \in reachable
         THEN /\ to_visit' = rest
              /\ UNCHANGED <<reachable, expandedT>>
         ELSE /\ reachable' = reachable \cup {id}
              /\ IF id \in DOMAIN nodes
                 THEN /\ \E order \in Orders(nodes[id]) :
                           to_visit' = rest \o Pushed(order, reachable')
                      /\ expandedT' = [expandedT EXCEPT ![id] = @ + 1]
                 ELSE /\ to_visit' = rest
                      /\ UNCHANGED expandedT
    /\ UNCHANGED <<tsPc, nodes, entry_points, pruned_nodes>>
    /\ UNCHANGED <<inputVars, run, bundlerVars, explicitVars, splitVars, mapVars, resolveVars, scanVars, callVars, cycleVars, webVars, watchVars>>

\* the loop ends and tree_shaker returns reachable
TsReturn ==
    /\ tsPc = "loop" /\ to_visit = <<>>
    /\ tsPc' = "done"
    /\ UNCHANGED <<nodes, entry_points, reachable, to_visit, expandedT,
                   pruned_nodes>>
    /\ UNCHANGED <<inputVars, run, bundlerVars, explicitVars, splitVars, mapVars, resolveVars, scanVars, callVars, cycleVars, webVars, watchVars>>

\* a pruning that also drops, from every kept node, the dependencies that
\* are not nodes of the graph
RemoveDanglingDependencies(graph, reach) ==
    [id \in {i \in DOMAIN graph : i \in reach} |->
        graph[id] \cap DOMAIN graph]

\* remove_unreachable_nodes: the (id, node) pairs whose id is in reachable,
\* each node cloned
remove_unreachable_nodes(graph, reach) ==
    [id \in {i \in DOMAIN graph : i \in reach} |-> graph[id]]

\* main calls remove_unreachable_nodes on what tree_shaker returned
TsRemove ==
    /\ tsPc = "done"
    /\ pruned_nodes' = remove_unreachable_nodes(nodes, reachable)
    /\ tsPc' = "pruned"
    /\ UNCHANGED <<nodes, entry_points, reachable, to_visit, expandedT>>
    /\ UNCHANGED <<inputVars, run, bundlerVars, explicitVars, splitVars, mapVars, resolveVars, scanVars, callVars, cycleVars, webVars, watchVars>>

NextShake == TsVisit \/ TsReturn \/ TsRemove

\* ------------------------------------------------------------------------
\* explicit-bundler.rs
\* ------------------------------------------------------------------------
\* config.entry_file
EntryFile == <<"a">>

\* resolve_import: format!("{}/{}", file_path, import_path); a path is the
\* sequence of its components
resolve_import(file_path, import_path) == file_path \o <<import_path>>

\* fs::read_to_string(file_path) succeeds: the path names a readable file of
\* the project directory (nothing exists below a regular file)
CanRead(file_path) ==
    Len(file_path) = 1 /\ fs[file_path[1]].status = "ok"

\* PluginManager::load: Some(content.to_string())
PluginLoad(file_path, content) == content

PathComment(file_path) == <<"comment", file_path>>
SplitMarker(file_path) == <<"split", file_path>>

\* bundle's own visited and bundle_content: created empty, cloned into the
\* entry task, never written afterwards
MainVisited == {}
MainBundleContent == <<>>

\* BundleStrategy::finalize: bundle_content.to_string()
Finalize(bundle_content, graph) == bundle_content

\* the source map SourceMapGenerator::generate returns
GeneratedSourceMap ==
    [version |-> JNumber("3"), file |-> JString(<<"out.js">>),
     sources |-> JArray(<<"source.js">>), names |-> JArray(<<>>),
     mappings |-> JString(<<"AAAA">>)]

InitExplicit ==
    /\ fs \in FileSystems
    /\ hasDir = FALSE /\ pattern = {} /\ run = 1
    /\ max_threads \in 0..MaxThreads
    /\ code_splitting \in BOOLEAN
    /\ generate_sourcemaps \in BOOLEAN
    /\ mainPc = "spawn" /\ joinIdx = 1 /\ txAlive = TRUE /\ queue = <<>>
    /\ wpc = [w \in Workers |-> "unspawned"]
    /\ wtask = [w \in Workers |-> NoTask]
    /\ cache = <<>> /\ dependency_graph = <<>>
    /\ transformed = <<>> /\ inserted = <<>> /\ mapped = <<>> /\ errors = <<>>
    /\ eOut = NoFile /\ eMapOut = NoFile
    /\ kind = AllJs
    /\ IdleBundler
    /\ IdleShake
    /\ IdleSplit
    /\ IdleMaps
    /\ IdleResolve
    /\ IdleScan
    /\ IdleCalls
    /\ IdleCycles
    /\ IdleWeb
    /\ IdleWatch

\* bundle spawns max_threads workers, each entering its receive loop
MSpawn ==
    /\ mainPc = "spawn"
    /\ wpc' = [w \in Workers |-> IF w <= max_threads THEN "recv" ELSE "unspawned"]
    /\ mainPc' = "send"
    /\ UNCHANGED <<max_threads, code_splitting, generate_sourcemaps, joinIdx,
                   txAlive, queue, wtask, cache, dependency_graph, transformed,
                   inserted, mapped, errors, eOut, eMapOut>>
    /\ UNCHANGED <<inputVars, run, bundlerVars, shakeVars, splitVars, mapVars, resolveVars, scanVars, callVars, cycleVars, webVars, watchVars>>

\* bundle sends the task of the entry file, with clones of its empty
\* visited and bundle_content
MSend ==
    /\ mainPc = "send"
    /\ queue' = Append(queue, [file_path |-> EntryFile,
                               visited |-> MainVisited,
                               bundle_content |-> MainBundleContent])
    /\ mainPc' = "join"
    /\ UNCHANGED <<max_threads, code_splitting, generate_sourcemaps, joinIdx,
                   txAlive, wpc, wtask, cache, dependency_graph, transformed,
                   inserted, mapped, errors, eOut, eMapOut>>
    /\ UNCHANGED <<inputVars, run, bundlerVars, shakeVars, splitVars, mapVars, resolveVars, scanVars, callVars, cycleVars, webVars, watchVars>>

\* worker.join().expect(..) on the next worker returns
MJoin ==
    /\ mainPc = "join" /\ joinIdx <= max_threads
    /\ wpc[joinIdx] \in {"exited", "panicked"}
    /\ IF wpc[joinIdx] = "exited"
       THEN /\ joinIdx' = joinIdx + 1
            /\ UNCHANGED <<mainPc, txAlive>>
       ELSE /\ mainPc' = "panicked"
            /\ txAlive' = FALSE
            /\ UNCHANGED joinIdx
    /\ UNCHANGED <<max_threads, code_splitting, generate_sourcemaps, queue,
                   wpc, wtask, cache, dependency_graph, transformed, inserted,
                   mapped, errors, eOut, eMapOut>>
    /\ UNCHANGED <<inputVars, run, bundlerVars, shakeVars, splitVars, mapVars, resolveVars, scanVars, callVars, cycleVars, webVars, watchVars>>

\* all workers joined: finalize (bundle's own bundle_content, which no task
\* ever wrote to), write the output file and the source map, return
MWrite ==
    /\ mainPc = "join" /\ joinIdx > max_threads
    /\ eOut' = Finalize(MainBundleContent, dependency_graph)
    /\ eMapOut' = IF generate_sourcemaps THEN GeneratedSourceMap ELSE eMapOut
    /\ mainPc' = "done"
    /\ txAlive' = FALSE
    /\ UNCHANGED <<max_threads, code_splitting, generate_sourcemaps, joinIdx,
                   queue, wpc, wtask, cache, dependency_graph, transformed,
                   inserted, mapped, errors>>
    /\ UNCHANGED <<inputVars, run, bundlerVars, shakeVars, splitVars, mapVars, resolveVars, scanVars, callVars, cycleVars, webVars, watchVars>>

\* rx.recv() returns a task
WRecv(w) ==
    /\ wpc[w] = "recv" /\ queue # <<>>
    /\ wtask' = [wtask EXCEPT ![w] =
            [NoTask EXCEPT !.file_path = Head(queue).file_path,
                           !.visited = Head(queue).visited,
                           !.bundle_content = Head(queue).bundle_content]]
    /\ queue' = Tail(queue)
    /\ wpc' = [wpc EXCEPT ![w] = "process"]
    /\ UNCHANGED <<max_threads, code_splitting, generate_sourcemaps, mainPc,
                   joinIdx, txAlive, cache, dependency_graph, transformed,
                   inserted, mapped, errors, eOut, eMapOut>>
    /\ UNCHANGED <<inputVars, run, bundlerVars, shakeVars, splitVars, mapVars, resolveVars, scanVars, callVars, cycleVars, webVars, watchVars>>

\* rx.recv() fails: every sender is gone and nothing is queued
WExit(w) ==
    /\ wpc[w] = "recv" /\ queue = <<>> /\ ~txAlive
    /\ wpc' = [wpc EXCEPT ![w] = "exited"]
    /\ UNCHANGED <<max_threads, code_splitting, generate_sourcemaps, mainPc,
                   joinIdx, txAlive, queue, wtask, cache, dependency_graph,
                   transformed, inserted, mapped, errors, eOut, eMapOut>>
    /\ UNCHANGED <<inputVars, run, bundlerVars, shakeVars, splitVars, mapVars, resolveVars, scanVars, callVars, cycleVars, webVars, watchVars>>

\* process with a read_and_transform_file that does not look into the cache
WProcessUncached(w) ==
    /\ wpc[w] = "process"
    /\ LET t == wtask[w] IN
         IF t.file_path \in t.visited
         THEN /\ wpc' = [wpc EXCEPT ![w] = "recv"]
              /\ wtask' = [wtask EXCEPT ![w] = NoTask]
         ELSE /\ wtask' = [wtask EXCEPT ![w] =
                     [t EXCEPT !.visited = @ \cup {t.file_path}]]
              /\ wpc' = [wpc EXCEPT ![w] = "read"]
    /\ UNCHANGED <<max_threads, code_splitting, generate_sourcemaps, mainPc,
                   joinIdx, txAlive, queue, cache, dependency_graph,
                   transformed, inserted, mapped, errors, eOut, eMapOut>>
    /\ UNCHANGED <<inputVars, run, bundlerVars, shakeVars, splitVars, mapVars, resolveVars, scanVars, callVars, cycleVars, webVars, watchVars>>

\* process: the visited test of the task's own copy, then the cache lookup
\* of read_and_transform_file
WProcess(w) ==
    /\ wpc[w] = "process"
    /\ LET t == wtask[w] IN
         IF t.file_path \in t.visited
         THEN /\ wpc' = [wpc EXCEPT ![w] = "recv"]
              /\ wtask' = [wtask EXCEPT ![w] = NoTask]
         ELSE IF t.file_path \in DOMAIN cache
         THEN /\ wtask' = [wtask EXCEPT ![w] =
                     [t EXCEPT !.visited = @ \cup {t.file_path},
                               !.content = cache[t.file_path]]]
              /\ wpc' = [wpc EXCEPT ![w] = "scan"]
         ELSE /\ wtask' = [wtask EXCEPT ![w] =
                     [t EXCEPT !.visited = @ \cup {t.file_path}]]
              /\ wpc' = [wpc EXCEPT ![w] = "read"]
    /\ UNCHANGED <<max_threads, code_splitting, generate_sourcemaps, mainPc,
                   joinIdx, txAlive, queue, cache, dependency_graph,
                   transformed, inserted, mapped, errors, eOut, eMapOut>>
    /\ UNCHANGED <<inputVars, run, bundlerVars, shakeVars, splitVars, mapVars, resolveVars, scanVars, callVars, cycleVars, webVars, watchVars>>

\* a read_and_transform_file that stores an empty content in the cache for
\* a file it could not read
WReadCachingFailure(w) ==
    /\ wpc[w] = "read"
    /\ LET t == wtask[w] IN
         IF CanRead(t.file_path)
         THEN /\ wtask' = [wtask EXCEPT ![w] =
                     [t EXCEPT !.content =
                         PluginLoad(t.file_path, FileText(t.file_path[1]))]]
              /\ transformed' = Append(transformed, t.file_path)
              /\ wpc' = [wpc EXCEPT ![w] = "insert"]
              /\ UNCHANGED <<errors, cache>>
         ELSE /\ errors' = Append(errors, t.file_path)
              /\ wtask' = [wtask EXCEPT ![w] = NoTask]
              /\ wpc' = [wpc EXCEPT ![w] = "recv"]
              /\ cache' = [p \in DOMAIN cache \cup {t.file_path} |->
                              IF p = t.file_path THEN <<>> ELSE cache[p]]
              /\ UNCHANGED transformed
    /\ UNCHANGED <<max_threads, code_splitting, generate_sourcemaps, mainPc,
                   joinIdx, txAlive, queue, dependency_graph,
                   inserted, mapped, eOut, eMapOut>>
    /\ UNCHANGED <<inputVars, run, bundlerVars, shakeVars, splitVars, mapVars, resolveVars, scanVars, callVars, cycleVars, webVars, watchVars>>

\* read_and_transform_file after a cache miss: read the file and run the
\* plugins on it; a read error ends the task and the worker reports it
WRead(w) ==
    /\ wpc[w] = "read"
    /\ LET t == wtask[w] IN
         IF CanRead(t.file_path)
         THEN /\ wtask' = [wtask EXCEPT ![w] =
                     [t EXCEPT !.content =
                         PluginLoad(t.file_path, FileText(t.file_path[1]))]]
              /\ transformed' = Append(transformed, t.file_path)
              /\ wpc' = [wpc EXCEPT ![w] = "insert"]
              /\ UNCHANGED errors
         ELSE /\ errors' = Append(errors, t.file_path)
              /\ wtask' = [wtask EXCEPT ![w] = NoTask]
              /\ wpc' = [wpc EXCEPT ![w] = "recv"]
              /\ UNCHANGED transformed
    /\ UNCHANGED <<max_threads, code_splitting, generate_sourcemaps, mainPc,
                   joinIdx, txAlive, queue, cache, dependency_graph,
                   inserted, mapped, eOut, eMapOut>>
    /\ UNCHANGED <<inputVars, run, bundlerVars, shakeVars, splitVars, mapVars, resolveVars, scanVars, callVars, cycleVars, webVars, watchVars>>

\* read_and_transform_file stores the transformed content in the cache
WInsert(w) ==
    /\ wpc[w] = "insert"
    /\ cache' = [p \in DOMAIN cache \cup {wtask[w].file_path} |->
                    IF p = wtask[w].file_path THEN wtask[w].content ELSE cache[p]]
    /\ inserted' = Append(inserted, wtask[w].file_path)
    /\ wpc' = [wpc EXCEPT ![w] = "scan"]
    /\ UNCHANGED <<max_threads, code_splitting, generate_sourcemaps, mainPc,
                   joinIdx, txAlive, queue, wtask, dependency_graph,
                   transformed, mapped, errors, eOut, eMapOut>>
    /\ UNCHANGED <<inputVars, run, bundlerVars, shakeVars, splitVars, mapVars, resolveVars, scanVars, callVars, cycleVars, webVars, watchVars>>

\* the import targets the regex captures in a content, in order
Captures(content) ==
    LET stmts == SelectSeq(content, LAMBDA tok : tok[1] = "import")
    IN [i \in 1..Len(stmts) |-> stmts[i][2]]

\* process appends the path comment and the content to its own copy of
\* bundle_content and compiles the import regex
WAppend(w) ==
    /\ wpc[w] = "scan"
    /\ wtask' = [wtask EXCEPT ![w] =
            [@ EXCEPT !.bundle_content =
                          @ \o <<PathComment(wtask[w].file_path)>>
                            \o wtask[w].content,
                      !.caps = Captures(wtask[w].content)]]
    /\ wpc' = [wpc EXCEPT ![w] = "imports"]
    /\ UNCHANGED <<max_threads, code_splitting, generate_sourcemaps, mainPc,
                   joinIdx, txAlive, queue, cache, dependency_graph,
                   transformed, inserted, mapped, errors, eOut, eMapOut>>
    /\ UNCHANGED <<inputVars, run, bundlerVars, shakeVars, splitVars, mapVars, resolveVars, scanVars, callVars, cycleVars, webVars, watchVars>>

\* one iteration of the loop over the captured imports (is_unused is always
\* false, so tree_shaking never skips one)
WImport(w) ==
    /\ wpc[w] = "imports" /\ wtask[w].caps # <<>>
    /\ LET t == wtask[w]
           resolved_path == resolve_import(t.file_path, Head(t.caps))
           old == IF t.file_path \in DOMAIN dependency_graph
                  THEN dependency_graph[t.file_path] ELSE {}
       IN
         /\ dependency_graph' =
                [p \in DOMAIN dependency_graph \cup {t.file_path} |->
                    IF p = t.file_path THEN old \cup {resolved_path}
                    ELSE dependency_graph[p]]
         /\ wtask' = [wtask EXCEPT ![w] =
                [t EXCEPT !.imports = Append(@, resolved_path),
                          !.caps = Tail(@),
                          !.bundle_content =
                              IF code_splitting
                              THEN @ \o <<SplitMarker(resolved_path)>> ELSE @]]
         /\ mapped' = Append(mapped, t.file_path)
    /\ UNCHANGED <<max_threads, code_splitting, generate_sourcemaps, mainPc,
                   joinIdx, txAlive, queue, wpc, cache, transformed, inserted,
                   errors, eOut, eMapOut>>
    /\ UNCHANGED <<inputVars, run, bundlerVars, shakeVars, splitVars, mapVars, resolveVars, scanVars, callVars, cycleVars, webVars, watchVars>>

\* a loop over imports that sends the task of every import on the channel
\* the workers receive from
WSendEnqueuing(w) ==
    /\ wpc[w] = "imports" /\ wtask[w].caps = <<>>
    /\ queue' = queue \o
            [i \in 1..Len(wtask[w].imports) |->
                [file_path |-> wtask[w].imports[i],
                 visited |-> wtask[w].visited,
                 bundle_content |-> wtask[w].bundle_content]]
    /\ wpc' = [wpc EXCEPT ![w] = "recv"]
    /\ wtask' = [wtask EXCEPT ![w] = NoTask]
    /\ UNCHANGED <<max_threads, code_splitting, generate_sourcemaps, mainPc,
                   joinIdx, txAlive, cache, dependency_graph,
                   transformed, inserted, mapped, errors, eOut, eMapOut>>
    /\ UNCHANGED <<inputVars, run, bundlerVars, shakeVars, splitVars, mapVars, resolveVars, scanVars, callVars, cycleVars, webVars, watchVars>>

\* the loop over imports: the task of the first import is sent on the
\* Sender of a channel made on the spot, whose Receiver is already dropped:
\* send fails and expect panics. Without imports process returns Ok.
WSend(w) ==
    /\ wpc[w] = "imports" /\ wtask[w].caps = <<>>
    /\ IF wtask[w].imports = <<>>
       THEN /\ wpc' = [wpc EXCEPT ![w] = "recv"]
            /\ wtask' = [wtask EXCEPT ![w] = NoTask]
       ELSE /\ wpc' = [wpc EXCEPT ![w] = "panicked"]
            /\ UNCHANGED wtask
    /\ UNCHANGED <<max_threads, code_splitting, generate_sourcemaps, mainPc,
                   joinIdx, txAlive, queue, cache, dependency_graph,
                   transformed, inserted, mapped, errors, eOut, eMapOut>>
    /\ UNCHANGED <<inputVars, run, bundlerVars, shakeVars, splitVars, mapVars, resolveVars, scanVars, callVars, cycleVars, webVars, watchVars>>

Worker(w) ==
    \/ WRecv(w) \/ WExit(w) \/ WProcess(w) \/ WRead(w) \/ WInsert(w)
    \/ WAppend(w) \/ WImport(w) \/ WSend(w)

NextExplicit ==
    MSpawn \/ MSend \/ MJoin \/ MWrite \/ (\E w \in Workers : Worker(w))

\* ------------------------------------------------------------------------
\* splitter.rs
\* ------------------------------------------------------------------------
\* the strings generate_random_string may return
RandomStrings == {"r1", "r2"}

\* the entry file of main, src/main.js
SplitEntry == "a"

\* import statements in a project whose files are of several kinds
MaxMixedImports == 2

\* the extensions of the files of the project directory: all JavaScript;
\* a style sheet and a page; a file of a kind split_code does not chunk
Kinds ==
    {AllJs,
     [n \in Names |-> IF n = "b" THEN "css" ELSE IF n = "c" THEN "html" ELSE "js"],
     [n \in Names |-> IF n = "b" THEN "ts" ELSE "js"]}

\* import_full_path.extension()
Ext(n) == kind[n]

\* format!("chunk_{}.{}", generate_random_string(6), extension)
ChunkName(r, ext) == <<"chunk", r, ext>>
\* format!("loadChunk('{}');", chunk_name)
ChunkLoader(chunk_name) == <<"load", chunk_name>>
\* chunk_folder.join(&chunk_name)
ChunkPath(folder, chunk_name) == <<"dist", folder, chunk_name>>
\* output_dir.join(entry_file.file_name())
OutputFilePath(n) == <<"dist", n>>
\* output_dir.join("manifest.txt")
ManifestPath == <<"dist", "manifest.txt">>

\* File::create and write_all: the file is created or replaced
WriteFile(dir, path, content) ==
    [q \in DOMAIN dir \cup {path} |-> IF q = path THEN content ELSE dir[q]]

SplitFrame(n) ==
    [file |-> n, caps |-> fs[n].imports, remaining_code |-> FileText(n),
     returned |-> FALSE]

\* the projects split: the files that hold import statements are those
\* split_code reaches from the entry
InitSplit ==
    /\ fs \in FileSystems
    /\ hasDir = TRUE /\ pattern = {} /\ run = 1
    /\ kind \in Kinds
    /\ kind # AllJs => SumLen(fs, Names) <= MaxMixedImports
    /\ \A n \in Names : fs[n].imports # <<>> => n \in Closure({SplitEntry})
    /\ sPc = "start" /\ split_seen = {} /\ chunk_metadata = <<>>
    /\ sStack = <<>> /\ dist = <<>> /\ manifest = NoFile
    /\ sPrev = NoOutput /\ sWrites = <<>>
    /\ IdleBundler
    /\ IdleShake
    /\ IdleExplicit
    /\ IdleMaps
    /\ IdleResolve
    /\ IdleScan
    /\ IdleCalls
    /\ IdleCycles
    /\ IdleWeb
    /\ IdleWatch

\* main creates the output directory and calls split_code on the entry
SStart ==
    /\ sPc = "start"
    /\ split_seen' = {SplitEntry}
    /\ IF fs[SplitEntry].status = "ok"
       THEN /\ sStack' = <<SplitFrame(SplitEntry)>>
            /\ sPc' = "split"
       ELSE /\ sPc' = "error"
            /\ UNCHANGED sStack
    /\ UNCHANGED <<chunk_metadata, dist, manifest, sPrev, sWrites>>
    /\ UNCHANGED <<inputVars, run, bundlerVars, shakeVars, explicitVars, mapVars, resolveVars, scanVars, callVars, cycleVars, webVars, watchVars>>

\* an iteration of the loop over the imports, up to the return of the
\* recursive split_code
SImport ==
    /\ sPc = "split" /\ sStack # <<>>
    /\ Head(sStack).caps # <<>> /\ ~Head(sStack).returned
    /\ LET top == Head(sStack)
           t == Head(top.caps)
       IN
         IF fs[t].status = "missing"
         THEN /\ sStack' = <<[top EXCEPT !.caps = Tail(@)]>> \o Tail(sStack)
              /\ UNCHANGED <<sPc, split_seen>>
         ELSE IF t \in split_seen
         THEN /\ sStack' = <<[top EXCEPT !.returned = TRUE]>> \o Tail(sStack)
              /\ UNCHANGED <<sPc, split_seen>>
         ELSE /\ split_seen' = split_seen \cup {t}
              /\ IF fs[t].status = "ok"
                 THEN /\ sStack' = <<SplitFrame(t)>> \o sStack
                      /\ UNCHANGED sPc
                 ELSE /\ sPc' = "error"
                      /\ sStack' = <<>>
    /\ UNCHANGED <<chunk_metadata, dist, manifest, sPrev, sWrites>>
    /\ UNCHANGED <<inputVars, run, bundlerVars, shakeVars, explicitVars, mapVars, resolveVars, scanVars, callVars, cycleVars, webVars, watchVars>>

\* the rest of the iteration: name the chunk, rewrite the import, write the
\* chunk file, record the chunk
SChunk ==
    /\ sPc = "split" /\ sStack # <<>> /\ Head(sStack).returned
    /\ \E r \in RandomStrings :
         LET top == Head(sStack)
             t == Head(top.caps)
             chunk_name == ChunkName(r, Ext(t))
             chunk_path == ChunkPath(Ext(t), chunk_name)
         IN
           IF Ext(t) \notin {"css", "html", "js"}
           THEN /\ sStack' = <<[top EXCEPT !.caps = Tail(@),
                                            !.returned = FALSE]>> \o Tail(sStack)
                /\ UNCHANGED <<dist, chunk_metadata, sWrites>>
           ELSE /\ sStack' =
                      <<[top EXCEPT
                          !.caps = Tail(@),
                          !.returned = FALSE,
                          !.remaining_code =
                              Replace(@, ImportStmt(t), <<ChunkLoader(chunk_name)>>)]>>
                      \o Tail(sStack)
                /\ dist' = WriteFile(dist, chunk_path, FileText(t))
                /\ sWrites' = Append(sWrites, chunk_path)
                /\ chunk_metadata' = Append(chunk_metadata, <<chunk_name, chunk_path>>)
    /\ UNCHANGED <<sPc, split_seen, manifest, sPrev>>
    /\ UNCHANGED <<inputVars, run, bundlerVars, shakeVars, explicitVars, mapVars, resolveVars, scanVars, callVars, cycleVars, webVars, watchVars>>

\* split_code writes the remaining code of the file and returns
SReturn ==
    /\ sPc = "split" /\ sStack # <<>> /\ Head(sStack).caps = <<>>
    /\ dist' = WriteFile(dist, OutputFilePath(Head(sStack).file),
                          Head(sStack).remaining_code)
    /\ sWrites' = Append(sWrites, OutputFilePath(Head(sStack).file))
    /\ IF Tail(sStack) = <<>>
       THEN /\ sStack' = <<>>
            /\ sPc' = "manifest"
       ELSE /\ sStack' = <<[sStack[2] EXCEPT !.returned = TRUE]>>
                          \o Tail(Tail(sStack))
            /\ UNCHANGED sPc
    /\ UNCHANGED <<split_seen, chunk_metadata, manifest, sPrev>>
    /\ UNCHANGED <<inputVars, run, bundlerVars, shakeVars, explicitVars, mapVars, resolveVars, scanVars, callVars, cycleVars, webVars, watchVars>>

\* a manifest listing the chunks last to first
ManifestLinesReversed(metadata) ==
    [i \in 1..Len(metadata) |-> metadata[Len(metadata) + 1 - i]]

\* the lines write_manifest writes: "name: path" for each pair, in order
ManifestLines(metadata) ==
    [i \in 1..Len(metadata) |-> <<metadata[i][1], metadata[i][2]>>]

\* main calls write_manifest once split_code has returned Ok
SManifest ==
    /\ sPc = "manifest"
    /\ manifest' = ManifestLines(chunk_metadata)
    /\ sWrites' = Append(sWrites, ManifestPath)
    /\ sPc' = "done"
    /\ UNCHANGED <<split_seen, chunk_metadata, sStack, dist, sPrev>>
    /\ UNCHANGED <<inputVars, run, bundlerVars, shakeVars, explicitVars, mapVars, resolveVars, scanVars, callVars, cycleVars, webVars, watchVars>>

\* the build is run again on the unchanged input, into an empty directory
SRerun ==
    /\ sPc \in {"done", "error"} /\ run < NumRuns
    /\ run' = run + 1
    /\ sPrev' = [dist |-> dist, manifest |-> manifest]
    /\ sPc' = "start" /\ split_seen' = {} /\ chunk_metadata' = <<>>
    /\ sStack' = <<>> /\ dist' = <<>> /\ manifest' = NoFile
    /\ sWrites' = <<>>
    /\ UNCHANGED <<inputVars, bundlerVars, shakeVars, explicitVars, mapVars, resolveVars, scanVars, callVars, cycleVars, webVars, watchVars>>

NextSplit == SStart \/ SImport \/ SChunk \/ SReturn \/ SManifest \/ SRerun

\* ------------------------------------------------------------------------
\* sourcemap.rs
\* ------------------------------------------------------------------------
\* number of mappings given to generate_source_map
MaxMappings == 3
\* number of documents given to merge_source_maps
MaxMaps == 2

\* struct Mapping; name_index is <<>> for None and <<i>> for Some(i)
Mappings ==
    [original_line : {1, 2}, original_column : {0}, generated_line : {1, 2},
     generated_column : {0}, name_index : {<<>>, <<1>>}]

MappingLists == UNION {[1..n -> Mappings] : n \in 0..MaxMappings}

\* the sources, sources_content and names generate_source_map is given:
\* those of main, none, and a source without its content
GenArgs ==
    {[sources |-> <<"s1", "s2">>, sources_content |-> <<"c1", "c2">>,
      names |-> <<"n1", "n2">>],
     NoArgs,
     [sources |-> <<"s1">>, sources_content |-> <<>>, names |-> <<"n1">>]}

RECURSIVE Join(_, _)
Join(parts, sep) ==
    IF parts = <<>> THEN <<>>
    ELSE IF Len(parts) = 1 THEN parts[1]
    ELSE parts[1] \o sep \o Join(Tail(parts), sep)

\* the segment of one mapping: the decimal texts of original_line,
\* original_column, generated_column and name_index.unwrap_or(0)
Segment(m) ==
    <<ToString(m.original_line), ":", ToString(m.original_column), ",",
      ToString(m.generated_column), ",",
      ToString(IF m.name_index = <<>> THEN 0 ELSE m.name_index[1])>>

\* the mappings of one generated line, last recorded first
LineMappingsReversed(ms, line) ==
    LET g == SelectSeq(ms, LAMBDA m : m.generated_line = line)
    IN [i \in 1..Len(g) |-> g[Len(g) + 1 - i]]

\* lines.entry(mapping.generated_line).or_default().push(mapping), for
\* every mapping in order: the Vec under one key
LineMappings(ms, line) == SelectSeq(ms, LAMBDA m : m.generated_line = line)

\* the keys of the HashMap `lines`
GeneratedLines(ms) == {ms[i].generated_line : i \in 1..Len(ms)}

\* generate_mappings_string, the HashMap iterated in the given order
generate_mappings_string(ms, order) ==
    Join([i \in 1..Len(order) |->
            LET g == LineMappings(ms, order[i])
            IN Join([j \in 1..Len(g) |-> Segment(g[j])], <<",">>)],
         <<";">>)

\* file.file_name() of dist/output.js
OutputFileName == <<"output.js">>

\* the document generate_source_map serializes
SourceMapDoc(args, mappings_string) ==
    [version |-> JNumber("3"),
     file |-> JString(OutputFileName),
     sources |-> JArray(args.sources),
     sourcesContent |-> JArray(args.sources_content),
     names |-> JArray(args.names),
     mappings |-> JString(mappings_string)]

\* the document generate_detailed_source_map serializes
DetailedSourceMapDoc(args, mappings_string) ==
    [version |-> JNumber("3"),
     file |-> JString(OutputFileName),
     sources |-> JArray(args.sources),
     sourcesContent |-> JArray(args.sources_content),
     names |-> JArray(args.names),
     mappings |-> JString(mappings_string),
     sourceRoot |-> JString(<<>>),
     x_filenames |-> JArray(args.sources),
     x_sources_content |-> JArray(args.sources_content)]

\* source_map["key"]: Null when the key is missing
Field(doc, key) == IF key \in DOMAIN doc THEN doc[key] ELSE JNull

\* Value::as_u64: Some for a non-negative integer, None for a float, a
\* negative number and every other JSON type
as_u64(j) ==
    IF j.t = "number" /\ j.v \in {<<"1">>, <<"2">>, <<"3">>} THEN j.v ELSE <<>>
\* Value::as_array().unwrap_or(&vec![])
as_array(j) == IF j.t = "array" THEN j.v ELSE <<>>
\* Value::as_str().unwrap_or("")
as_str(j) == IF j.t = "string" THEN j.v ELSE <<>>

\* a validation that does not look at the mappings field
ValidateWithoutMappings(doc) ==
    IF Field(doc, "version").t # "number"
       \/ as_u64(Field(doc, "version")) \notin {<<"3">>, <<"2">>}
    THEN "Unsupported source map version"
    ELSE IF Field(doc, "file").t # "string"
    THEN "Missing or invalid file field"
    ELSE IF Field(doc, "sources").t # "array"
    THEN "Missing or invalid sources field"
    ELSE IF Field(doc, "sourcesContent").t # "array"
    THEN "Missing or invalid sourcesContent field"
    ELSE IF Field(doc, "names").t # "array"
    THEN "Missing or invalid names field"
    ELSE "Ok"

\* validate_source_map on a parsed document: Ok, or the message of the
\* io::Error of kind InvalidData
validate_source_map(doc) ==
    IF Field(doc, "version").t # "number"
       \/ as_u64(Field(doc, "version")) \notin {<<"3">>, <<"2">>}
    THEN "Unsupported source map version"
    ELSE IF Field(doc, "file").t # "string"
    THEN "Missing or invalid file field"
    ELSE IF Field(doc, "sources").t # "array"
    THEN "Missing or invalid sources field"
    ELSE IF Field(doc, "sourcesContent").t # "array"
    THEN "Missing or invalid sourcesContent field"
    ELSE IF Field(doc, "names").t # "array"
    THEN "Missing or invalid names field"
    ELSE IF Field(doc, "mappings").t # "string"
    THEN "Missing or invalid mappings field"
    ELSE "Ok"

\* the fields validate_source_map looks at
MapFields == {"version", "file", "sources", "sourcesContent", "names", "mappings"}

\* what a field of a document to validate may hold: nothing (the key is
\* missing), null, a string, an array, or the number of the given text
FieldChoices == {"absent", "null", "string", "array"}
VersionChoices == {"absent", "string", "3", "2", "1", "3.0"}

ChoiceValue(c) ==
    IF c = "null" THEN JNull
    ELSE IF c = "string" THEN JString(<<"x">>)
    ELSE IF c = "array" THEN JArray(<<"x">>)
    ELSE JNumber(c)

ChosenDoc(ch) ==
    [k \in {f \in MapFields : ch[f] # "absent"} |-> ChoiceValue(ch[k])]

\* the documents validate_source_map is run on
ValDocs ==
    {ChosenDoc([version |-> v, file |-> f, sources |-> so,
                sourcesContent |-> sc, names |-> n, mappings |-> m]) :
        v \in VersionChoices, f \in {"absent", "string", "array"},
        so \in FieldChoices, sc \in FieldChoices,
        n \in {"absent", "string", "array"}, m \in FieldChoices}

\* the documents merge_source_maps is given: valid documents, and one that
\* has no mappings and whose names is a string
MergeDocs ==
    {[version |-> JNumber("3"), file |-> JString(OutputFileName),
      sources |-> JArray(so),
      sourcesContent |-> JArray([i \in 1..Len(so) |-> <<"content of", so[i]>>]),
      names |-> JArray(n), mappings |-> JString(m)] :
        so \in {<<"s1">>, <<"s1", "s2">>, <<"s2", "s2">>},
        n \in {<<>>, <<"n1">>},
        m \in {<<>>, <<"A">>, <<"B", ";">>}}
    \cup {[version |-> JNumber("3"), file |-> JString(OutputFileName),
           sources |-> JArray(<<"s1">>), sourcesContent |-> JArray(<<>>),
           names |-> JString(<<"n1">>)]}

MapLists == UNION {[1..n -> MergeDocs] : n \in 0..MaxMaps}

\* length of the mappings string of a document given to compress_source_map
MaxMappingsLen == 5

\* the mappings strings to compress: segments and separators in any order
MappingsStrings == UNION {[1..n -> {"A", ";"}] : n \in 0..MaxMappingsLen}

\* the documents compress_source_map is run on: valid documents, and one
\* that has no mappings
CompressDocs ==
    {[version |-> JNumber("3"), file |-> JString(OutputFileName),
      sources |-> JArray(<<"s1">>), sourcesContent |-> JArray(<<"c1">>),
      names |-> JArray(<<>>), mappings |-> JString(m)] :
        m \in MappingsStrings}
    \cup {[version |-> JNumber("3"), file |-> JString(OutputFileName),
           sources |-> JArray(<<"s1">>), sourcesContent |-> JArray(<<"c1">>),
           names |-> JArray(<<>>)]}

\* the functions of sourcemap.rs, each on its own inputs
InitMaps ==
    /\ \/ /\ smPc = "generate"
          /\ genArgs \in GenArgs /\ mappings \in MappingLists
          /\ mapFile = NoDoc /\ maps = <<>>
       \/ /\ smPc = "validate"
          /\ genArgs = NoArgs /\ mappings = <<>>
          /\ mapFile \in ValDocs \cup {NoDoc} /\ maps = <<>>
       \/ /\ smPc = "merge"
          /\ genArgs = NoArgs /\ mappings = <<>>
          /\ mapFile = NoDoc /\ maps \in MapLists
       \/ /\ smPc = "compress"
          /\ genArgs = NoArgs /\ mappings = <<>>
          /\ mapFile \in CompressDocs \cup {NoDoc} /\ maps = <<>>
    /\ verdict = "none"
    /\ compressedFile = NoDoc
    /\ fs = NoFs /\ hasDir = FALSE /\ pattern = {} /\ run = 1
    /\ kind = AllJs
    /\ IdleBundler
    /\ IdleShake
    /\ IdleExplicit
    /\ IdleSplit
    /\ IdleResolve
    /\ IdleScan
    /\ IdleCalls
    /\ IdleCycles
    /\ IdleWeb
    /\ IdleWatch

\* generate_source_map or generate_detailed_source_map writes its document
SmGenerate ==
    /\ smPc = "generate"
    /\ \E order \in Orders(GeneratedLines(mappings)), detailed \in BOOLEAN :
         mapFile' =
            IF detailed
            THEN DetailedSourceMapDoc(genArgs,
                    generate_mappings_string(mappings, order))
            ELSE SourceMapDoc(genArgs,
                    generate_mappings_string(mappings, order))
    /\ smPc' = "generated"
    /\ UNCHANGED <<genArgs, mappings, maps, verdict, compressedFile>>
    /\ UNCHANGED <<inputVars, run, bundlerVars, shakeVars, explicitVars,
                   splitVars, resolveVars, scanVars, callVars, cycleVars, webVars, watchVars>>

\* the mappings strings of the documents in reverse input order
MergedMappingsReversed(docs) ==
    Join([i \in 1..Len(docs) |->
            as_str(Field(docs[Len(docs) + 1 - i], "mappings"))], <<>>)

\* mappings.push(..) for every document, then mappings.concat()
MergedMappings(docs) ==
    Join([i \in 1..Len(docs) |-> as_str(Field(docs[i], "mappings"))], <<>>)

\* set.extend(map[key].as_array().unwrap_or(&vec![])) for every document
Extended(docs, key) ==
    UNION {Range(as_array(Field(docs[i], key))) : i \in 1..Len(docs)}

\* the name merge_source_maps gives its result
MergedFileName == <<"merged.js">>

\* merge_source_maps; main writes the result to the merged map file
SmMerge ==
    /\ smPc = "merge"
    /\ \E so \in Orders(Extended(maps, "sources")),
          sc \in Orders(Extended(maps, "sourcesContent")),
          n \in Orders(Extended(maps, "names")) :
         mapFile' = [version |-> JNumber("3"),
                     file |-> JString(MergedFileName),
                     sources |-> JArray(so),
                     sourcesContent |-> JArray(sc),
                     names |-> JArray(n),
                     mappings |-> JString(MergedMappings(maps))]
    /\ smPc' = "merged"
    /\ UNCHANGED <<genArgs, mappings, maps, verdict, compressedFile>>
    /\ UNCHANGED <<inputVars, run, bundlerVars, shakeVars, explicitVars,
                   splitVars, resolveVars, scanVars, callVars, cycleVars, webVars, watchVars>>

\* validate_source_map on the map file: a file that does not exist fails
\* in fs::read_to_string
SmValidate ==
    /\ smPc \in {"validate", "generated", "merged"}
    /\ verdict' = IF mapFile = NoDoc THEN "NotFound"
                  ELSE validate_source_map(mapFile)
    /\ smPc' = IF smPc = "validate" THEN "validated" ELSE "checked"
    /\ UNCHANGED <<genArgs, mappings, mapFile, maps, compressedFile>>
    /\ UNCHANGED <<inputVars, run, bundlerVars, shakeVars, explicitVars,
                   splitVars, resolveVars, scanVars, callVars, cycleVars, webVars, watchVars>>

\* the pattern compress_source_map replaces, ";;;;", and its replacement
RedundantSeparators == <<";", ";", ";", ";">>
Separator == <<";">>

\* str::replace(from, to): the non-overlapping matches of `from`, found
\* left to right, are each replaced by `to`
RECURSIVE replace(_, _, _)
replace(text, from, to) ==
    IF Len(text) < Len(from) THEN text
    ELSE IF SubSeq(text, 1, Len(from)) = from
         THEN to \o replace(SubSeq(text, Len(from) + 1, Len(text)), from, to)
         ELSE <<text[1]>> \o replace(Tail(text), from, to)

\* source_map["mappings"] = Value::String(mappings): the key is set, and
\* added when the document does not hold it
WithMappings(doc, mappings_string) ==
    [k \in DOMAIN doc \cup {"mappings"} |->
        IF k = "mappings" THEN JString(mappings_string) ELSE doc[k]]

\* compress_source_map on the map file (main runs it on the merged map): a
\* file that does not exist fails in fs::read_to_string, otherwise the
\* document with its new mappings is written to the compressed map file
SmCompress ==
    /\ smPc \in {"compress", "merged"}
    /\ IF mapFile = NoDoc
       THEN /\ smPc' = "notCompressed"
            /\ UNCHANGED compressedFile
       ELSE /\ smPc' = "compressed"
            /\ compressedFile' =
                 WithMappings(mapFile,
                    replace(as_str(Field(mapFile, "mappings")),
                            RedundantSeparators, Separator))
    /\ UNCHANGED <<genArgs, mappings, mapFile, maps, verdict>>
    /\ UNCHANGED <<inputVars, run, bundlerVars, shakeVars, explicitVars,
                   splitVars, resolveVars, scanVars, callVars, cycleVars, webVars, watchVars>>

NextMaps == SmGenerate \/ SmMerge \/ SmValidate \/ SmCompress

\* ------------------------------------------------------------------------
\* resolver.rs
\* ------------------------------------------------------------------------
\* number of fallback extensions in the configuration
MaxExtensions == 2

\* the import references: "./utils", "../utils" and "utils", each with or
\* without the extension js and the fragment #frag, and "@", in which the
\* path pattern matches nothing
Imports ==
    [form : {"./", "../", "bare"}, ext : {"", "js"}, fragment : {"", "frag"}]
    \cup {[form |-> "nomatch", ext |-> "", fragment |-> ""]}

ExtensionLists == UNION {[1..n -> {"js", "ts"}] : n \in 0..MaxExtensions}

\* load_config: the parsed configuration file, or the error
Configs ==
    {[loaded |-> TRUE, paths |-> "search_path", extensions |-> l] :
        l \in ExtensionLists} \cup {NoConfig}

\* what is at a path: nothing, a regular file that is not read-only, or a
\* directory or read-only file
FileKinds == {"none", "file", "unsafe"}

\* the files next to the resolved path, one for every extension the call
\* can ask for
ResolverFileSystems == [{"", "js", "ts", "ext"} -> FileKinds]

InitResolve ==
    /\ rPc = "start"
    /\ r_import_path \in Imports
    /\ config \in Configs
    /\ rfs \in ResolverFileSystems
    /\ env_path \in {"unset"} \cup FileKinds
    /\ r_resolved_path = NoPath
    /\ resolved = NoPath
    /\ fs = NoFs /\ hasDir = FALSE /\ pattern = {} /\ run = 1
    /\ kind = AllJs
    /\ IdleBundler
    /\ IdleShake
    /\ IdleExplicit
    /\ IdleSplit
    /\ IdleMaps
    /\ IdleScan
    /\ IdleCalls
    /\ IdleCycles
    /\ IdleWeb
    /\ IdleWatch

\* fs::metadata(path) / Path::exists, for the path RESOLVED_PATH names and
\* for the paths next to the resolved one
KindOf(path) == IF path.dir = "env" THEN env_path ELSE rfs[path.ext]
PathExists(path) == KindOf(path) # "none"

\* PathBuf::set_extension: the extension is replaced, or added
set_extension(path, ext) == [path EXCEPT !.ext = ext]

\* new_path.set_extension(format!("{}.ext", fragment)): the fragment
\* becomes a part of the file name and "ext" the extension
SetFragmentExtension(path, fragment) ==
    [path EXCEPT !.stem = Append(@, fragment), !.ext = "ext"]

\* resolved_path.canonicalize().unwrap_or_else(|_| resolved_path.clone())
Canonicalize(path) ==
    IF PathExists(path) THEN [path EXCEPT !.canonical = TRUE] ELSE path

\* the alternate resolution that takes the last candidate that exists
TryAlternateLast(path, cfg) ==
    LET found == SelectSeq(cfg.extensions,
                    LAMBDA ext : PathExists(set_extension(path, ext)))
    IN IF found = <<>> THEN <<>>
       ELSE <<set_extension(path, found[Len(found)])>>

\* try_alternate_resolutions: Some(path with the first extension under
\* which a file exists) as <<path>>, None as <<>>
try_alternate_resolutions(path, cfg) ==
    LET found == SelectSeq(cfg.extensions,
                    LAMBDA ext : PathExists(set_extension(path, ext)))
    IN IF found = <<>> THEN <<>> ELSE <<set_extension(path, found[1])>>

\* load_env_variable_path("RESOLVED_PATH") as <<path>> or <<>>
load_env_variable_path ==
    IF env_path = "unset" THEN <<>>
    ELSE <<[dir |-> "env", stem |-> <<"resolved">>, ext |-> "",
            canonical |-> FALSE]>>

\* verify_path_security: metadata can be read, is_file, not readonly
verify_path_security(path) == KindOf(path) = "file"

\* the path the captures of the pattern give: base_dir.join(path_match)
\* for ./ and ../, PathBuf::from(path_match) otherwise, which the process
\* reads relative to its working directory
LiteralPath(imp) ==
    [dir |-> IF imp.form = "./" THEN "base_dir"
             ELSE IF imp.form = "../" THEN "base_dir/.." ELSE "cwd",
     stem |-> <<"utils">>, ext |-> imp.ext, canonical |-> FALSE]

\* resolve_path loads the configuration
RLoadConfig ==
    /\ rPc = "start"
    /\ IF config.loaded
       THEN /\ rPc' = "resolve"
            /\ UNCHANGED resolved
       ELSE /\ rPc' = "returned"
            /\ resolved' = NoPath
    /\ UNCHANGED <<r_import_path, config, rfs, env_path, r_resolved_path>>
    /\ UNCHANGED <<inputVars, run, bundlerVars, shakeVars, explicitVars,
                   splitVars, mapVars, scanVars, callVars, cycleVars, webVars, watchVars>>

\* a plugin hook that answers every import reference with a path of its own
PluginResolveHooked(import_path) ==
    <<[dir |-> "plugin", stem |-> <<"hooked">>, ext |-> "",
       canonical |-> FALSE]>>

\* PluginManager::resolve of resolver.rs, as <<path>> or <<>>: always None
PluginResolve(import_path) == <<>>

\* the pattern: literal path, fragment, canonical form of a path holding
\* "..", alternate extensions
PatternBranch(imp, cfg) ==
    LET literal == LiteralPath(imp)
        fragmented == IF imp.fragment # ""
                      THEN SetFragmentExtension(literal, imp.fragment)
                      ELSE literal
        normalized == IF imp.form = "../" THEN Canonicalize(fragmented)
                      ELSE fragmented
        alternative == try_alternate_resolutions(normalized, cfg)
    IN IF imp.form = "nomatch"
       THEN [dir |-> "base_dir", stem |-> <<"@">>, ext |-> "",
             canonical |-> FALSE]
       ELSE IF ~PathExists(normalized) /\ alternative # <<>>
       THEN alternative[1]
       ELSE normalized

\* the RESOLVED_PATH override
Overridden(path) ==
    IF load_env_variable_path # <<>> THEN load_env_variable_path[1] ELSE path

\* verify_path_security and the string returned
Secured(path) == IF verify_path_security(path) THEN path ELSE NoPath

\* the plugin hook, whose path is returned as it is, then the pattern
RResolve ==
    /\ rPc = "resolve"
    /\ IF PluginResolve(r_import_path) # <<>>
       THEN /\ resolved' = PluginResolve(r_import_path)[1]
            /\ rPc' = "returned"
            /\ UNCHANGED r_resolved_path
       ELSE /\ r_resolved_path' = PatternBranch(r_import_path, config)
            /\ rPc' = "env"
            /\ UNCHANGED resolved
    /\ UNCHANGED <<r_import_path, config, rfs, env_path>>
    /\ UNCHANGED <<inputVars, run, bundlerVars, shakeVars, explicitVars,
                   splitVars, mapVars, scanVars, callVars, cycleVars, webVars, watchVars>>

\* the RESOLVED_PATH override, verify_path_security and the return
RReturn ==
    /\ rPc = "env"
    /\ r_resolved_path' = Overridden(r_resolved_path)
    /\ resolved' = Secured(Overridden(r_resolved_path))
    /\ rPc' = "returned"
    /\ UNCHANGED <<r_import_path, config, rfs, env_path>>
    /\ UNCHANGED <<inputVars, run, bundlerVars, shakeVars, explicitVars,
                   splitVars, mapVars, scanVars, callVars, cycleVars, webVars, watchVars>>

NextResolve == RLoadConfig \/ RResolve \/ RReturn

\* ------------------------------------------------------------------------
\* bundler.rs: the import patterns of the four file kinds
\* ------------------------------------------------------------------------
\* statements in one scanned file
MaxStatements == 2

\* a file's text as a sequence of lexemes: words, punctuation, quotes,
\* blanks and import paths
DoubleQuote == "\""
Quotes == {DoubleQuote, "'"}
Spaces == {" ", "\n"}

\* the statements a file may hold: an import of b or c in the syntax of one
\* of the four kinds, or other text
FileKindsScanned == {"js", "css", "html", "json"}
Statements ==
    [syntax : FileKindsScanned, path : {"b", "c"}]
    \cup {[syntax |-> "text", path |-> ""]}
StatementLists == UNION {[1..n -> Statements] : n \in 0..MaxStatements}

\* the text of a statement
Render(stmt) ==
    CASE stmt.syntax = "js" ->
            <<"import", " ", DoubleQuote, stmt.path, DoubleQuote, ";">>
      [] stmt.syntax = "css" ->
            <<"@", "import", " ", DoubleQuote, stmt.path, DoubleQuote, ";">>
      [] stmt.syntax = "html" ->
            <<"<link", " ", "rel=", DoubleQuote, "import", DoubleQuote, " ",
              "href=", DoubleQuote, stmt.path, DoubleQuote, ">">>
      [] stmt.syntax = "json" ->
            <<DoubleQuote, "$import", DoubleQuote, ":", " ", DoubleQuote,
              stmt.path, DoubleQuote>>
      [] OTHER -> <<"text">>

\* the text of a file: its statements, one per line
RECURSIVE Text(_)
Text(stmts) ==
    IF stmts = <<>> THEN <<>>
    ELSE Render(Head(stmts)) \o <<"\n">> \o Text(Tail(stmts))

\* the elements of a pattern: a literal, \s+, \s*, ["'] and ([^"']+)
Lit(x) == [e |-> "lit", x |-> x]
Ws1 == [e |-> "ws1", x |-> ""]
Ws0 == [e |-> "ws0", x |-> ""]
Quote == [e |-> "quote", x |-> ""]
Cap == [e |-> "cap", x |-> ""]

\* import\s+["']([^"']+)["'];
JsPattern == <<Lit("import"), Ws1, Quote, Cap, Quote, Lit(";")>>
\* @import\s+["']([^"']+)["'];
CssPattern == <<Lit("@"), Lit("import"), Ws1, Quote, Cap, Quote, Lit(";")>>
\* <link\s+rel=["']import["']\s+href=["']([^"']+)["'];
HtmlPattern ==
    <<Lit("<link"), Ws1, Lit("rel="), Quote, Lit("import"), Quote, Ws1,
      Lit("href="), Quote, Cap, Quote, Lit(";")>>
\* "\$import":\s*["']([^"']+)["']
JsonPattern ==
    <<Lit(DoubleQuote), Lit("$import"), Lit(DoubleQuote), Lit(":"), Ws0,
      Quote, Cap, Quote>>

\* main's choice of bundle_*_file by the extension of the path
PatternOf(ext) ==
    CASE ext = "js" -> JsPattern
      [] ext = "css" -> CssPattern
      [] ext = "html" -> HtmlPattern
      [] ext = "json" -> JsonPattern

\* the end of the longest run of blanks that starts at i
RECURSIVE SkipSpaces(_, _)
SkipSpaces(text, i) ==
    IF i <= Len(text) /\ text[i] \in Spaces
    THEN SkipSpaces(text, i + 1) ELSE i

\* the end of the longest run of lexemes other than quotes that starts at i
RECURSIVE SkipNonQuotes(_, _)
SkipNonQuotes(text, i) ==
    IF i <= Len(text) /\ text[i] \notin Quotes
    THEN SkipNonQuotes(text, i + 1) ELSE i

NoMatch == [ok |-> FALSE, end |-> 0, cap |-> <<>>]

\* the match of the elements k.. of a pattern at position i of a text. A
\* repeated class takes the longest run: in every pattern above the element
\* that follows one cannot match a lexeme of the class, so this is the only
\* way the pattern can match.
RECURSIVE MatchFrom(_, _, _, _, _)
MatchFrom(re, k, text, i, cap) ==
    IF k > Len(re) THEN [ok |-> TRUE, end |-> i, cap |-> cap]
    ELSE
      LET el == re[k]
          here == i <= Len(text)
      IN CASE el.e = "lit" ->
                IF here /\ text[i] = el.x
                THEN MatchFrom(re, k + 1, text, i + 1, cap) ELSE NoMatch
           [] el.e = "ws1" ->
                IF here /\ text[i] \in Spaces
                THEN MatchFrom(re, k + 1, text, SkipSpaces(text, i), cap)
                ELSE NoMatch
           [] el.e = "ws0" ->
                MatchFrom(re, k + 1, text, SkipSpaces(text, i), cap)
           [] el.e = "quote" ->
                IF here /\ text[i] \in Quotes
                THEN MatchFrom(re, k + 1, text, i + 1, cap) ELSE NoMatch
           [] el.e = "cap" ->
                IF here /\ text[i] \notin Quotes
                THEN MatchFrom(re, k + 1, text, SkipNonQuotes(text, i),
                               SubSeq(text, i, SkipNonQuotes(text, i) - 1))
                ELSE NoMatch

\* re.captures_iter(&code): the non-overlapping matches from left to
\* right; cap.get(1) of each
RECURSIVE captures_iter(_, _, _)
captures_iter(re, text, i) ==
    IF i > Len(text) THEN <<>>
    ELSE LET m == MatchFrom(re, 1, text, i, <<>>)
         IN IF m.ok THEN <<m.cap>> \o captures_iter(re, text, m.end)
            ELSE captures_iter(re, text, i + 1)

InitScan ==
    /\ scanPc = "start"
    /\ scanKind \in FileKindsScanned
    /\ scanCode \in StatementLists
    /\ scanned = <<>>
    /\ fs = NoFs /\ hasDir = FALSE /\ pattern = {} /\ run = 1
    /\ kind = AllJs
    /\ IdleBundler
    /\ IdleShake
    /\ IdleExplicit
    /\ IdleSplit
    /\ IdleMaps
    /\ IdleResolve
    /\ IdleCalls
    /\ IdleCycles
    /\ IdleWeb
    /\ IdleWatch

\* bundle_*_file collects the import paths of the code it has read
ScanImports ==
    /\ scanPc = "start"
    /\ scanned' = captures_iter(PatternOf(scanKind), Text(scanCode), 1)
    /\ scanPc' = "done"
    /\ UNCHANGED <<scanKind, scanCode>>
    /\ UNCHANGED <<inputVars, run, bundlerVars, shakeVars, explicitVars,
                   splitVars, mapVars, resolveVars, callVars, cycleVars, webVars, watchVars>>

NextScan == ScanImports

\* ------------------------------------------------------------------------
\* resolver.rs: resolve_path called by several workers at once
\* ------------------------------------------------------------------------
\* the references the workers resolve: those without an extension
CallImports == {imp \in Imports : imp.ext = ""}

\* the workers share the configuration file, the file system and the
\* environment of the process
InitCalls ==
    /\ callPc = [w \in Callers |-> "start"]
    /\ call_import_path \in [Callers -> CallImports]
    /\ call_resolved_path = [w \in Callers |-> NoPath]
    /\ call_resolved = [w \in Callers |-> NoPath]
    /\ config \in Configs
    /\ rfs \in {f \in ResolverFileSystems : f["ts"] = "none"}
    /\ env_path \in {"unset", "file"}
    /\ rPc = "idle" /\ r_import_path = NoImport /\ r_resolved_path = NoPath
    /\ resolved = NoPath
    /\ fs = NoFs /\ hasDir = FALSE /\ pattern = {} /\ run = 1
    /\ kind = AllJs
    /\ IdleBundler
    /\ IdleShake
    /\ IdleExplicit
    /\ IdleSplit
    /\ IdleMaps
    /\ IdleScan
    /\ IdleCycles
    /\ IdleWeb
    /\ IdleWatch

\* a call loads the configuration
CLoadConfig(w) ==
    /\ callPc[w] = "start"
    /\ IF config.loaded
       THEN /\ callPc' = [callPc EXCEPT ![w] = "resolve"]
            /\ UNCHANGED call_resolved
       ELSE /\ callPc' = [callPc EXCEPT ![w] = "returned"]
            /\ call_resolved' = [call_resolved EXCEPT ![w] = NoPath]
    /\ UNCHANGED <<call_import_path, call_resolved_path>>
    /\ UNCHANGED <<inputVars, run, bundlerVars, shakeVars, explicitVars,
                   splitVars, mapVars, resolveVars, scanVars, cycleVars, webVars, watchVars>>

\* a call asks the plugin hook, then takes the pattern branch
CResolve(w) ==
    /\ callPc[w] = "resolve"
    /\ IF PluginResolve(call_import_path[w]) # <<>>
       THEN /\ call_resolved' = [call_resolved EXCEPT ![w] =
                    PluginResolve(call_import_path[w])[1]]
            /\ callPc' = [callPc EXCEPT ![w] = "returned"]
            /\ UNCHANGED call_resolved_path
       ELSE /\ call_resolved_path' = [call_resolved_path EXCEPT ![w] =
                    PatternBranch(call_import_path[w], config)]
            /\ callPc' = [callPc EXCEPT ![w] = "env"]
            /\ UNCHANGED call_resolved
    /\ UNCHANGED call_import_path
    /\ UNCHANGED <<inputVars, run, bundlerVars, shakeVars, explicitVars,
                   splitVars, mapVars, resolveVars, scanVars, cycleVars, webVars, watchVars>>

\* a call that would export the path it resolved as RESOLVED_PATH
CReturnExporting(w) ==
    /\ callPc[w] = "env"
    /\ call_resolved_path' = [call_resolved_path EXCEPT ![w] = Overridden(@)]
    /\ call_resolved' = [call_resolved EXCEPT ![w] =
            Secured(Overridden(call_resolved_path[w]))]
    /\ callPc' = [callPc EXCEPT ![w] = "returned"]
    /\ env_path' = KindOf(Overridden(call_resolved_path[w]))
    /\ UNCHANGED <<call_import_path, rPc, r_import_path, config, rfs,
                   r_resolved_path, resolved>>
    /\ UNCHANGED <<inputVars, run, bundlerVars, shakeVars, explicitVars,
                   splitVars, mapVars, scanVars, cycleVars, webVars, watchVars>>

\* a call applies the RESOLVED_PATH override and verify_path_security and
\* returns
CReturn(w) ==
    /\ callPc[w] = "env"
    /\ call_resolved_path' = [call_resolved_path EXCEPT ![w] = Overridden(@)]
    /\ call_resolved' = [call_resolved EXCEPT ![w] =
            Secured(Overridden(call_resolved_path[w]))]
    /\ callPc' = [callPc EXCEPT ![w] = "returned"]
    /\ UNCHANGED call_import_path
    /\ UNCHANGED <<inputVars, run, bundlerVars, shakeVars, explicitVars,
                   splitVars, mapVars, resolveVars, scanVars, cycleVars, webVars, watchVars>>

NextCalls == \E w \in Callers : CLoadConfig(w) \/ CResolve(w) \/ CReturn(w)

\* ------------------------------------------------------------------------
\* explicit-bundler.rs: bundle called again on the same Bundler
\* ------------------------------------------------------------------------
\* Bundler::bundle can take no further step: it has returned or panicked,
\* or it is blocked in a join on a worker that is blocked in recv
BundleQuiescent ==
    /\ mainPc \in {"join", "done", "panicked"}
    /\ \A w \in Workers :
          \/ wpc[w] \in {"unspawned", "panicked", "exited"}
          \/ wpc[w] = "recv" /\ queue = <<>> /\ txAlive
    /\ mainPc = "join" => joinIdx <= max_threads /\ wpc[joinIdx] = "recv"

\* bundle(&self) is called again once the previous call has come to rest
\* (from the thread that caught its panic, or from another thread while it
\* is blocked): a new channel and new workers, the cache, the dependency
\* graph and the source-map generator of the Bundler as the previous call
\* left them. The threads of the previous call never take another step.
MRebundle ==
    /\ BundleQuiescent /\ run < NumRuns
    /\ run' = run + 1
    /\ mainPc' = "spawn" /\ joinIdx' = 1 /\ txAlive' = TRUE /\ queue' = <<>>
    /\ wpc' = [w \in Workers |-> "unspawned"]
    /\ wtask' = [w \in Workers |-> NoTask]
    /\ UNCHANGED <<max_threads, code_splitting, generate_sourcemaps, cache,
                   dependency_graph, transformed, inserted, mapped, errors,
                   eOut, eMapOut>>
    /\ UNCHANGED <<inputVars, bundlerVars, shakeVars, splitVars, mapVars,
                   resolveVars, scanVars, callVars, cycleVars, webVars, watchVars>>

\* a build reads no file but the entry file (the tasks of its imports are
\* never received): the other files of the project hold no imports
InitRebundle ==
    /\ InitExplicit
    /\ \A n \in Names \ {EntryFile[1]} : fs[n].imports = <<>>
NextRebundle == NextExplicit \/ MRebundle

\* ------------------------------------------------------------------------
\* treeshake.rs: detect_cycles
\* ------------------------------------------------------------------------
\* detect_cycles starts on a graph: nodes.keys() yields the keys in an
\* order of the HashMap's choosing
InitCycles ==
    /\ nodes \in Graphs
    /\ dcPc = "loop"
    /\ dcKeys \in Orders(DOMAIN nodes)
    /\ dcFrames = <<>>
    /\ cycle_visited = {} /\ cycle_stack = {} /\ cycles = {}
    /\ tsPc = "idle" /\ entry_points = <<>> /\ reachable = {}
    /\ pruned_nodes = <<>>
    /\ to_visit = <<>> /\ expandedT = [n \in Names |-> 0]
    /\ fs = NoFs /\ hasDir = FALSE /\ pattern = {} /\ run = 1
    /\ kind = AllJs
    /\ IdleBundler
    /\ IdleExplicit
    /\ IdleSplit
    /\ IdleMaps
    /\ IdleResolve
    /\ IdleScan
    /\ IdleCalls
    /\ IdleWeb
    /\ IdleWatch

\* a call of visit that has not run yet
Call(node_id) == [node_id |-> node_id, entered |-> FALSE, deps |-> <<>>]

\* one iteration of `for node_id in nodes.keys()`: visit is called on a key
\* that is not visited yet
DcLoop ==
    /\ dcPc = "loop" /\ dcFrames = <<>> /\ dcKeys # <<>>
    /\ dcKeys' = Tail(dcKeys)
    /\ dcFrames' = IF Head(dcKeys) \in cycle_visited THEN <<>>
                   ELSE <<Call(Head(dcKeys))>>
    /\ UNCHANGED <<dcPc, cycle_visited, cycle_stack, cycles>>
    /\ UNCHANGED <<inputVars, run, bundlerVars, shakeVars, explicitVars,
                   splitVars, mapVars, resolveVars, scanVars, callVars, webVars, watchVars>>

\* visit is entered: a node on the stack is put into cycles, a visited node
\* is left alone, any other node is marked visited and put on the stack,
\* and its dependencies will be visited in the order the HashSet yields
DcEnter ==
    /\ dcPc = "loop" /\ dcFrames # <<>>
    /\ ~dcFrames[Len(dcFrames)].entered
    /\ LET top == Len(dcFrames)
           node_id == dcFrames[top].node_id
       IN
         IF node_id \in cycle_stack
         THEN /\ cycles' = cycles \cup {node_id}
              /\ dcFrames' = SubSeq(dcFrames, 1, top - 1)
              /\ UNCHANGED <<cycle_visited, cycle_stack>>
         ELSE IF node_id \in cycle_visited
         THEN /\ dcFrames' = SubSeq(dcFrames, 1, top - 1)
              /\ UNCHANGED <<cycle_visited, cycle_stack, cycles>>
         ELSE /\ cycle_visited' = cycle_visited \cup {node_id}
              /\ cycle_stack' = cycle_stack \cup {node_id}
              /\ \E order \in Orders(IF node_id \in DOMAIN nodes
                                     THEN nodes[node_id] ELSE {}) :
                    dcFrames' = [dcFrames EXCEPT ![top] =
                        [node_id |-> node_id, entered |-> TRUE,
                         deps |-> order]]
              /\ UNCHANGED cycles
    /\ UNCHANGED <<dcPc, dcKeys>>
    /\ UNCHANGED <<inputVars, run, bundlerVars, shakeVars, explicitVars,
                   splitVars, mapVars, resolveVars, scanVars, callVars, webVars, watchVars>>

\* one iteration of `for dep in &node.dependencies`: visit(dep)
DcDep ==
    /\ dcPc = "loop" /\ dcFrames # <<>>
    /\ LET top == Len(dcFrames) IN
         /\ dcFrames[top].entered /\ dcFrames[top].deps # <<>>
         /\ dcFrames' = Append(
                [dcFrames EXCEPT ![top].deps = Tail(@)],
                Call(Head(dcFrames[top].deps)))
    /\ UNCHANGED <<dcPc, dcKeys, cycle_visited, cycle_stack, cycles>>
    /\ UNCHANGED <<inputVars, run, bundlerVars, shakeVars, explicitVars,
                   splitVars, mapVars, resolveVars, scanVars, callVars, webVars, watchVars>>

\* a visit that returns without taking its node off the stack
DcReturnKeepingStack ==
    /\ dcPc = "loop" /\ dcFrames # <<>>
    /\ LET top == Len(dcFrames) IN
         /\ dcFrames[top].entered /\ dcFrames[top].deps = <<>>
         /\ dcFrames' = SubSeq(dcFrames, 1, top - 1)
    /\ UNCHANGED <<dcPc, dcKeys, cycle_visited, cycle_stack, cycles>>
    /\ UNCHANGED <<inputVars, run, bundlerVars, shakeVars, explicitVars,
                   splitVars, mapVars, resolveVars, scanVars, callVars, webVars, watchVars>>

\* visit returns: stack.remove(node_id)
DcReturn ==
    /\ dcPc = "loop" /\ dcFrames # <<>>
    /\ LET top == Len(dcFrames) IN
         /\ dcFrames[top].entered /\ dcFrames[top].deps = <<>>
         /\ cycle_stack' = cycle_stack \ {dcFrames[top].node_id}
         /\ dcFrames' = SubSeq(dcFrames, 1, top - 1)
    /\ UNCHANGED <<dcPc, dcKeys, cycle_visited, cycles>>
    /\ UNCHANGED <<inputVars, run, bundlerVars, shakeVars, explicitVars,
                   splitVars, mapVars, resolveVars, scanVars, callVars, webVars, watchVars>>

\* the loop over the keys ends and detect_cycles returns cycles
DcDone ==
    /\ dcPc = "loop" /\ dcFrames = <<>> /\ dcKeys = <<>>
    /\ dcPc' = "done"
    /\ UNCHANGED <<dcKeys, dcFrames, cycle_visited, cycle_stack, cycles>>
    /\ UNCHANGED <<inputVars, run, bundlerVars, shakeVars, explicitVars,
                   splitVars, mapVars, resolveVars, scanVars, callVars, webVars, watchVars>>

NextCycles == DcLoop \/ DcEnter \/ DcDep \/ DcReturn \/ DcDone

\* ------------------------------------------------------------------------
\* cache.rs
\* ------------------------------------------------------------------------
\* largest capacity a WebCache is made with or set to
MaxCapacity == 2
\* last reading of the clock
MaxTime == 2
\* number of WebCache methods called on one WebCache
MaxCalls == 3

\* the JSON texts load_cache_from_json is given: serialized caches, with
\* bodies and timestamps as saved earlier, and a text that does not parse
JsonTexts ==
    {[parses |-> TRUE,
      entries |-> {[url |-> u, body |-> 0, timestamp |-> 0] : u \in D}] :
        D \in SUBSET Urls}
    \cup {[parses |-> FALSE, entries |-> {}]}

NotWebVars ==
    <<inputVars, run, bundlerVars, shakeVars, explicitVars, splitVars,
      mapVars, resolveVars, scanVars, callVars, cycleVars, watchVars>>

\* WebCache::new(ttl, capacity), shared by the threads
InitCache ==
    /\ web_cache = {} /\ history = <<>>
    /\ capacity \in 0..MaxCapacity
    /\ ttl \in 0..(MaxTime + 1)
    /\ cleanup_running = FALSE /\ cleanup_threads = 0 /\ now = 0
    /\ cache_lock = "free" /\ running_lock = "free" /\ poisoned = FALSE
    /\ wcPc = [t \in WebThreads |-> "idle"]
    /\ wcUrl = [t \in WebThreads |-> ""]
    /\ wcRet = [t \in WebThreads |-> <<>>]
    /\ requests = [u \in Urls |-> 0]
    /\ wcCalls = 0 /\ wcLast = ""
    /\ fs = NoFs /\ hasDir = FALSE /\ pattern = {} /\ run = 1
    /\ kind = AllJs
    /\ IdleBundler
    /\ IdleShake
    /\ IdleExplicit
    /\ IdleSplit
    /\ IdleMaps
    /\ IdleResolve
    /\ IdleScan
    /\ IdleCalls
    /\ IdleCycles
    /\ IdleWatch

\* response.timestamp.elapsed() < self.ttl
Fresh(response) == now - response.timestamp < ttl

\* history.push_back(url); if history.len() > capacity { pop_front() }
Recorded(hist, url) ==
    IF Len(hist) + 1 > capacity THEN Tail(Append(hist, url))
    ELSE Append(hist, url)

\* the keys min_by_key(timestamp) may yield: those of the oldest entries
\* (which of several equally old ones depends on the HashMap's order)
OldestKeys(c) ==
    {e.url : e \in {o \in c : \A j \in c : o.timestamp <= j.timestamp}}

\* cache.contains_key(url) and cache.get(url)
Keys(c) == {e.url : e \in c}
Cached(c, url) == CHOOSE e \in c : e.url = url

\* cache.remove(key)
Removed(c, key) == {e \in c : e.url # key}

\* cache.insert(url, CachedResponse {body, timestamp})
Inserted(c, url, response) ==
    Removed(c, url) \cup
        {[url |-> url, body |-> response.body,
          timestamp |-> response.timestamp]}

\* evict_oldest_entry called until the cache fits: the caches that can be
\* left
RECURSIVE EvictedDownTo(_, _)
EvictedDownTo(c, size) ==
    IF Cardinality(c) <= size THEN {c}
    ELSE UNION {EvictedDownTo(Removed(c, k), size) : k \in OldestKeys(c)}

\* a lock() that succeeds whoever holds the mutex
FetchLockShared(t, url) ==
    /\ wcPc[t] = "idle" /\ wcCalls < MaxCalls
    /\ wcCalls' = wcCalls + 1
    /\ IF poisoned
       THEN /\ wcPc' = [wcPc EXCEPT ![t] = "panicked"]
            /\ UNCHANGED <<cache_lock, wcUrl>>
       ELSE /\ wcPc' = [wcPc EXCEPT ![t] = "lookup"]
            /\ cache_lock' = t
            /\ wcUrl' = [wcUrl EXCEPT ![t] = url]
    /\ UNCHANGED <<web_cache, history, capacity, ttl, cleanup_running,
                   cleanup_threads, now, running_lock, poisoned, wcRet,
                   requests, wcLast>>
    /\ UNCHANGED NotWebVars

\* fetch is called and takes the cache mutex and the history mutex;
\* lock().unwrap() panics when the mutex is poisoned
FetchLock(t, url) ==
    /\ wcPc[t] = "idle" /\ wcCalls < MaxCalls
    /\ cache_lock = "free"
    /\ wcCalls' = wcCalls + 1
    /\ IF poisoned
       THEN /\ wcPc' = [wcPc EXCEPT ![t] = "panicked"]
            /\ UNCHANGED <<cache_lock, wcUrl>>
       ELSE /\ wcPc' = [wcPc EXCEPT ![t] = "lookup"]
            /\ cache_lock' = t
            /\ wcUrl' = [wcUrl EXCEPT ![t] = url]
    /\ UNCHANGED <<web_cache, history, capacity, ttl, cleanup_running,
                   cleanup_threads, now, running_lock, poisoned, wcRet,
                   requests, wcLast>>
    /\ UNCHANGED NotWebVars

\* the lock a thread gives up when its guards are dropped
Released(t) == IF cache_lock = t THEN "free" ELSE cache_lock

\* fetch looks the url up: a fresh entry is recorded in the history and its
\* body returned; otherwise fetch goes on to the network
FetchLookup(t) ==
    /\ wcPc[t] = "lookup"
    /\ LET url == wcUrl[t] IN
         IF url \in Keys(web_cache) /\ Fresh(Cached(web_cache, url))
         THEN /\ history' = Recorded(history, url)
              /\ wcRet' = [wcRet EXCEPT ![t] =
                                <<Cached(web_cache, url).body>>]
              /\ wcPc' = [wcPc EXCEPT ![t] = "idle"]
              /\ cache_lock' = Released(t)
         ELSE /\ wcPc' = [wcPc EXCEPT ![t] = "request"]
              /\ UNCHANGED <<history, wcRet, cache_lock>>
    /\ UNCHANGED <<web_cache, capacity, ttl, cleanup_running, cleanup_threads,
                   now, running_lock, poisoned, wcUrl, requests, wcCalls,
                   wcLast>>
    /\ UNCHANGED NotWebVars

\* the request is sent. With a response, fetch stores it under the time of
\* the clock, evicts one oldest entry when the cache is over capacity,
\* records the url and returns the body; without one, unwrap panics with
\* both mutexes held. The body of the n-th response for a url is n.
FetchRequest(t) ==
    /\ wcPc[t] = "request"
    /\ LET url == wcUrl[t]
           response_body == requests[url] + 1
           stored == Inserted(web_cache, url,
                        [body |-> response_body, timestamp |-> now])
       IN
         /\ requests' = [requests EXCEPT ![url] = response_body]
         /\ \/ /\ web_cache' \in
                    IF Cardinality(stored) > capacity
                    THEN {Removed(stored, k) : k \in OldestKeys(stored)}
                    ELSE {stored}
               /\ history' = Recorded(history, url)
               /\ wcRet' = [wcRet EXCEPT ![t] = <<response_body>>]
               /\ wcPc' = [wcPc EXCEPT ![t] = "idle"]
               /\ wcLast' = "fetch"
               /\ UNCHANGED poisoned
            \/ /\ wcPc' = [wcPc EXCEPT ![t] = "panicked"]
               /\ poisoned' = TRUE
               /\ UNCHANGED <<web_cache, history, wcRet, wcLast>>
         /\ cache_lock' = Released(t)
    /\ UNCHANGED <<capacity, ttl, cleanup_running, cleanup_threads, now,
                   running_lock, wcUrl, wcCalls>>
    /\ UNCHANGED NotWebVars

\* a lock() of cleanup_running that succeeds whoever holds the mutex
SctLockShared(t) ==
    /\ wcPc[t] = "idle" /\ wcCalls < MaxCalls
    /\ running_lock' = t
    /\ wcCalls' = wcCalls + 1
    /\ wcPc' = [wcPc EXCEPT ![t] = "check"]
    /\ UNCHANGED <<web_cache, history, capacity, ttl, cleanup_running,
                   cleanup_threads, now, cache_lock, poisoned, wcUrl, wcRet,
                   requests, wcLast>>
    /\ UNCHANGED NotWebVars

\* start_cleanup_thread is called and takes the cleanup_running mutex
SctLock(t) ==
    /\ wcPc[t] = "idle" /\ wcCalls < MaxCalls
    /\ running_lock = "free"
    /\ running_lock' = t
    /\ wcCalls' = wcCalls + 1
    /\ wcPc' = [wcPc EXCEPT ![t] = "check"]
    /\ UNCHANGED <<web_cache, history, capacity, ttl, cleanup_running,
                   cleanup_threads, now, cache_lock, poisoned, wcUrl, wcRet,
                   requests, wcLast>>
    /\ UNCHANGED NotWebVars

\* if *running { return }
SctCheck(t) ==
    /\ wcPc[t] = "check"
    /\ IF cleanup_running
       THEN /\ wcPc' = [wcPc EXCEPT ![t] = "idle"]
            /\ running_lock' = IF running_lock = t THEN "free"
                               ELSE running_lock
       ELSE /\ wcPc' = [wcPc EXCEPT ![t] = "spawn"]
            /\ UNCHANGED running_lock
    /\ UNCHANGED <<web_cache, history, capacity, ttl, cleanup_running,
                   cleanup_threads, now, cache_lock, poisoned, wcUrl, wcRet,
                   requests, wcCalls, wcLast>>
    /\ UNCHANGED NotWebVars

\* *running = true; drop(running); thread::spawn(..)
SctSpawn(t) ==
    /\ wcPc[t] = "spawn"
    /\ cleanup_running' = TRUE
    /\ running_lock' = IF running_lock = t THEN "free" ELSE running_lock
    /\ cleanup_threads' = cleanup_threads + 1
    /\ wcPc' = [wcPc EXCEPT ![t] = "idle"]
    /\ UNCHANGED <<web_cache, history, capacity, ttl, now,
                   cache_lock, poisoned, wcUrl, wcRet, requests, wcCalls,
                   wcLast>>
    /\ UNCHANGED NotWebVars

\* set_capacity(&mut self): the caller has the WebCache to itself, no other
\* thread holds a reference to it. The capacity is set and oldest entries
\* are evicted until the cache fits.
SetCapacity(t, new_capacity) ==
    /\ \A o \in WebThreads : wcPc[o] \in {"idle", "panicked"}
    /\ wcPc[t] = "idle" /\ cleanup_threads = 0 /\ wcCalls < MaxCalls
    /\ wcCalls' = wcCalls + 1
    /\ IF poisoned
       THEN /\ wcPc' = [wcPc EXCEPT ![t] = "panicked"]
            /\ UNCHANGED <<capacity, web_cache, wcLast>>
       ELSE /\ capacity' = new_capacity
            /\ web_cache' \in EvictedDownTo(web_cache, new_capacity)
            /\ wcLast' = "set_capacity"
            /\ UNCHANGED wcPc
    /\ UNCHANGED <<history, ttl, cleanup_running, cleanup_threads, now,
                   cache_lock, running_lock, poisoned, wcUrl, wcRet,
                   requests>>
    /\ UNCHANGED NotWebVars

\* clear_cache_and_history
ClearCacheAndHistory(t) ==
    /\ wcPc[t] = "idle" /\ cache_lock = "free" /\ wcCalls < MaxCalls
    /\ wcCalls' = wcCalls + 1
    /\ IF poisoned
       THEN /\ wcPc' = [wcPc EXCEPT ![t] = "panicked"]
            /\ UNCHANGED <<web_cache, history, wcLast>>
       ELSE /\ web_cache' = {}
            /\ history' = <<>>
            /\ wcLast' = "clear"
            /\ UNCHANGED wcPc
    /\ UNCHANGED <<capacity, ttl, cleanup_running, cleanup_threads, now,
                   cache_lock, running_lock, poisoned, wcUrl, wcRet,
                   requests>>
    /\ UNCHANGED NotWebVars

\* load_cache_from_json: the cache becomes what the text holds; a text that
\* does not parse panics in unwrap with the cache mutex held
LoadCacheFromJson(t, json) ==
    /\ wcPc[t] = "idle" /\ cache_lock = "free" /\ wcCalls < MaxCalls
    /\ wcCalls' = wcCalls + 1
    /\ IF poisoned
       THEN /\ wcPc' = [wcPc EXCEPT ![t] = "panicked"]
            /\ UNCHANGED <<web_cache, poisoned, wcLast>>
       ELSE IF ~json.parses
       THEN /\ wcPc' = [wcPc EXCEPT ![t] = "panicked"]
            /\ poisoned' = TRUE
            /\ UNCHANGED <<web_cache, wcLast>>
       ELSE /\ web_cache' = json.entries
            /\ wcLast' = "load"
            /\ UNCHANGED <<wcPc, poisoned>>
    /\ UNCHANGED <<history, capacity, ttl, cleanup_running, cleanup_threads,
                   now, cache_lock, running_lock, wcUrl, wcRet, requests>>
    /\ UNCHANGED NotWebVars

\* one round of a cleanup thread: cache.retain(fresh)
Cleanup ==
    /\ cleanup_threads >= 1 /\ cache_lock = "free" /\ ~poisoned
    /\ web_cache' = {e \in web_cache : Fresh(e)}
    /\ wcLast' = "cleanup"
    /\ UNCHANGED <<history, capacity, ttl, cleanup_running, cleanup_threads,
                   now, cache_lock, running_lock, poisoned, wcPc, wcUrl,
                   wcRet, requests, wcCalls>>
    /\ UNCHANGED NotWebVars

\* time passes
Tick ==
    /\ now < MaxTime
    /\ now' = now + 1
    /\ UNCHANGED <<web_cache, history, capacity, ttl, cleanup_running,
                   cleanup_threads, cache_lock, running_lock, poisoned, wcPc,
                   wcUrl, wcRet, requests, wcCalls, wcLast>>
    /\ UNCHANGED NotWebVars

NextCache ==
    \/ \E t \in WebThreads, url \in Urls : FetchLock(t, url)
    \/ \E t \in WebThreads : FetchLookup(t)
    \/ \E t \in WebThreads : FetchRequest(t)
    \/ \E t \in WebThreads : SctLock(t)
    \/ \E t \in WebThreads : SctCheck(t)
    \/ \E t \in WebThreads : SctSpawn(t)
    \/ \E t \in WebThreads, c \in 0..MaxCapacity : SetCapacity(t, c)
    \/ \E t \in WebThreads : ClearCacheAndHistory(t)
    \/ \E t \in WebThreads, json \in JsonTexts : LoadCacheFromJson(t, json)
    \/ Cleanup
    \/ Tick

\* load_test_cache: the threads fetch one url from a new WebCache
TestUrl == "u"

NextLoadTest ==
    \/ \E t \in WebThreads : FetchLock(t, TestUrl)
    \/ \E t \in WebThreads : FetchLookup(t)
    \/ \E t \in WebThreads : FetchRequest(t)
    \/ Tick

\* the threads that share the WebCache fetch and start the cleanup thread
NextCleanup ==
    \/ \E t \in WebThreads, url \in Urls : FetchLock(t, url)
    \/ \E t \in WebThreads : FetchLookup(t)
    \/ \E t \in WebThreads : FetchRequest(t)
    \/ \E t \in WebThreads : SctLock(t)
    \/ \E t \in WebThreads : SctCheck(t)
    \/ \E t \in WebThreads : SctSpawn(t)
    \/ Cleanup
    \/ Tick

\* ------------------------------------------------------------------------
\* hotreload.rs
\* ------------------------------------------------------------------------
\* number of file-system events the watcher sends
MaxEvents == 2
\* number of SIGINTs delivered to the process
MaxSignals == 1

\* notify::DebouncedEvent: the four kinds handle_event acts on, and the rest
EventKinds == {"Write", "Create", "Remove", "Rename", "Other"}

\* what the command named for an event does: no command is named, it exits
\* with success, it exits with a failure, it cannot be started
Commands == {"", "succeeds", "fails", "missing"}

\* main has set up the watcher on the current directory and the signal
\* handling, and enters its loop
InitWatch ==
    /\ hrPc = "check"
    /\ running = TRUE
    /\ signals = 0 /\ delivered = 0
    /\ events = <<>> /\ sent = 0
    /\ command \in Commands
    /\ watch_log = <<"Started watching">>
    /\ fs = NoFs /\ hasDir = FALSE /\ pattern = {} /\ run = 1
    /\ kind = AllJs
    /\ IdleBundler
    /\ IdleShake
    /\ IdleExplicit
    /\ IdleSplit
    /\ IdleMaps
    /\ IdleResolve
    /\ IdleScan
    /\ IdleCalls
    /\ IdleCycles
    /\ IdleWeb

NotWatchVars ==
    <<inputVars, run, bundlerVars, shakeVars, explicitVars, splitVars,
      mapVars, resolveVars, scanVars, callVars, cycleVars, webVars>>

\* the watcher thread sends an event on tx
FsEvent(event) ==
    /\ hrPc \in {"check", "recv"} /\ sent < MaxEvents
    /\ events' = Append(events, event)
    /\ sent' = sent + 1
    /\ UNCHANGED <<hrPc, running, signals, delivered, command, watch_log>>
    /\ UNCHANGED NotWatchVars

\* a SIGINT is delivered to the process
SigInt ==
    /\ hrPc \in {"check", "recv"} /\ delivered < MaxSignals
    /\ delivered' = delivered + 1
    /\ signals' = signals + 1
    /\ UNCHANGED <<hrPc, running, events, sent, command, watch_log>>
    /\ UNCHANGED NotWatchVars

\* the signal thread: for _ in signals.forever() { *running = false }
SignalThread ==
    /\ signals > 0
    /\ signals' = signals - 1
    /\ running' = FALSE
    /\ UNCHANGED <<hrPc, delivered, events, sent, command, watch_log>>
    /\ UNCHANGED NotWatchVars

\* the top of main's loop: the flag is read; cleared, main prints the
\* shutdown message and breaks, otherwise it calls rx.recv()
MainCheck ==
    /\ hrPc = "check"
    /\ hrPc' = IF running THEN "recv" ELSE "exited"
    /\ UNCHANGED <<running, signals, delivered, events, sent, command, watch_log>>
    /\ UNCHANGED NotWatchVars

\* the lines handle_event logs for an event before it runs the command
EventLines(event) ==
    IF event = "Write" THEN <<"File written">>
    ELSE IF event = "Create" THEN <<"File created">>
    ELSE IF event = "Remove" THEN <<"File removed">>
    ELSE IF event = "Rename"
    THEN <<"File renamed (source)", "File renamed (destination)">>
    ELSE <<>>

\* the line execute_custom_command logs
CommandLines(cmd) ==
    IF cmd = "succeeds" THEN <<"command succeeded">>
    ELSE IF cmd = "fails" THEN <<"command failed">>
    ELSE <<>>

\* rx.recv() returns an event and handle_event handles it: the event is
\* logged and its command run; a command that cannot be started panics
MainRecv ==
    /\ hrPc = "recv" /\ events # <<>>
    /\ events' = Tail(events)
    /\ IF Head(events) = "Other"
       THEN /\ hrPc' = "check"
            /\ UNCHANGED watch_log
       ELSE /\ watch_log' = watch_log \o EventLines(Head(events))
                                      \o CommandLines(command)
            /\ hrPc' = IF command = "missing" THEN "panicked" ELSE "check"
    /\ UNCHANGED <<running, signals, delivered, sent, command>>
    /\ UNCHANGED NotWatchVars

NextWatch ==
    \/ \E event \in EventKinds : FsEvent(event)
    \/ SigInt
    \/ SignalThread
    \/ MainCheck
    \/ MainRecv

\* ------------------------------------------------------------------------
\* Specifications
\* ------------------------------------------------------------------------
vars == <<fs, hasDir, pattern, run, bPc, entries, bIdx, seen_files, bundled_code,
          bStack, expandedB, bOut, bPrevOut,
          tsPc, nodes, entry_points, reachable, to_visit, expandedT,
          pruned_nodes,
          max_threads, code_splitting, generate_sourcemaps, mainPc, joinIdx,
          txAlive, queue, wpc, wtask, cache, dependency_graph, transformed,
          inserted, mapped, errors, eOut, eMapOut,
          sPc, split_seen, chunk_metadata, sStack, dist, manifest, sPrev,
          sWrites, kind,
          smPc, genArgs, mappings, mapFile, maps, verdict, compressedFile,
          rPc, r_import_path, config, rfs, env_path, r_resolved_path, resolved,
          scanPc, scanKind, scanCode, scanned,
          callPc, call_import_path, call_resolved_path, call_resolved,
          dcPc, dcKeys, dcFrames, cycle_visited, cycle_stack, cycles,
          web_cache, history, capacity, ttl, cleanup_running, cleanup_threads, now, cache_lock, running_lock, poisoned, wcPc, wcUrl, wcRet, requests, wcCalls, wcLast,
          hrPc, running, signals, delivered, events, sent, command, watch_log>>

SpecBundler == InitBundler /\ [][NextBundler]_vars

SpecShake == InitShake /\ [][NextShake]_vars

SpecWatch == InitWatch /\ [][NextWatch]_vars

\* main and the signal thread keep running; nothing obliges the watcher to
\* send an event or anyone to send a signal
FairSpecWatch ==
    SpecWatch /\ WF_vars(MainCheck) /\ WF_vars(MainRecv)
              /\ WF_vars(SignalThread)

SpecCache == InitCache /\ [][NextCache]_vars

SpecLoadTest == InitCache /\ [][NextLoadTest]_vars

SpecCleanup == InitCache /\ [][NextCleanup]_vars

SpecExplicit == InitExplicit /\ [][NextExplicit]_vars

\* the scheduler runs every thread that can take a step
FairSpecExplicit == SpecExplicit /\ WF_vars(NextExplicit)

SpecSplit == InitSplit /\ [][NextSplit]_vars

SpecMaps == InitMaps /\ [][NextMaps]_vars

SpecResolve == InitResolve /\ [][NextResolve]_vars

SpecScan == InitScan /\ [][NextScan]_vars

SpecCalls == InitCalls /\ [][NextCalls]_vars

SpecCycles == InitCycles /\ [][NextCycles]_vars

\* the worker-pool build, run NumRuns times on the same Bundler
SpecRebundle == InitRebundle /\ [][NextRebundle]_vars

\* either build, run NumRuns times
InitBuilds == InitBundler \/ InitSplit
NextBuilds == NextBundler \/ NextSplit
SpecBuilds == InitBuilds /\ [][NextBuilds]_vars

\* ------------------------------------------------------------------------
\* Graphs and texts the properties speak about
\* ------------------------------------------------------------------------
\* the files on an import cycle
CycleMembers == {n \in Names : n \in Closure(ImportsOf(n))}

\* the modules of the worker-pool build: those reachable from the entry
EntryName == EntryFile[1]
Modules == Closure({EntryName})
AllReadable == \A n \in Modules : fs[n].status = "ok"

\* the modules two or more modules import
DiamondModules ==
    {m \in Modules : Cardinality({n \in Modules : m \in ImportsOf(n)}) >= 2}

\* how many paths of a log name file m
TimesIn(log, m) ==
    Cardinality({i \in 1..Len(log) : log[i][Len(log[i])] = m})

RECURSIVE Dedup(_)
Dedup(s) ==
    IF s = <<>> THEN <<>>
    ELSE LET d == Dedup(SubSeq(s, 1, Len(s) - 1))
         IN IF s[Len(s)] \in Range(d) THEN d ELSE Append(d, s[Len(s)])

\* the modules in the order they are first discovered from the entry
RECURSIVE Discover(_, _)
Discover(order, i) ==
    IF i > Len(order) THEN order
    ELSE Discover(
            order \o Dedup(SelectSeq(fs[order[i]].imports,
                LAMBDA t : fs[t].status # "missing" /\ t \notin Range(order))),
            i + 1)

DiscoveryOrder == Discover(<<EntryName>>, 1)

RECURSIVE Assemble(_)
Assemble(order) ==
    IF order = <<>> THEN <<>>
    ELSE <<<<"comment", Head(order)>>>> \o FileText(Head(order))
            \o Assemble(Tail(order))

\* a bundle with each path comment reduced to the file it names
Comments(bundle) ==
    [i \in 1..Len(bundle) |->
        IF bundle[i][1] = "comment"
        THEN <<"comment", bundle[i][2][Len(bundle[i][2])]>>
        ELSE bundle[i]]

\* ------------------------------------------------------------------------
\* Properties
\* ------------------------------------------------------------------------

\* C1: at the end of a build with one or more workers, every module that two
\* or more modules import has been transformed exactly once and inserted
\* into the cache exactly once.
C1_DiamondTransformedOnce ==
    (BundleQuiescent /\ max_threads >= 1 /\ AllReadable) =>
        \A m \in DiamondModules :
            TimesIn(transformed, m) = 1 /\ TimesIn(inserted, m) = 1

\* C2: in the bundle bundler.rs writes, the text of every module reachable
\* from the glob entries appears exactly once.
C2_EachModuleOnce ==
    bPc = "done" =>
        \A n \in Closure(pattern) : Count(Body(n), bOut) = 1

\* C3: once the queue is empty and no worker has a task in flight,
\* Bundler::bundle eventually returns with the output file written.
Drained ==
    /\ max_threads >= 1 /\ mainPc = "join" /\ queue = <<>>
    /\ \A w \in 1..max_threads : wpc[w] = "recv"
C3_BundleCompletes == Drained ~> (mainPc = "done" /\ eOut # NoFile)

\* C4: enqueuing the task of a discovered import never aborts the worker.
C4_EnqueueNeverAborts == \A w \in Workers : wpc[w] # "panicked"

\* C5: bundle_js_file expands the imports of a file on an import cycle at
\* most once, and exactly once in a build that completes and reaches it.
C5_CycleMembersExpandedOnce ==
    /\ \A n \in CycleMembers : expandedB[n] <= 1
    /\ bPc = "done" =>
          \A n \in CycleMembers \cap Closure(pattern) : expandedB[n] = 1

\* the ids reachable from a set of ids by following dependencies
DepsOf(id) == IF id \in DOMAIN nodes THEN nodes[id] ELSE {}

RECURSIVE ReachableIds(_)
ReachableIds(S) ==
    LET T == S \cup UNION {DepsOf(id) : id \in S}
    IN IF T = S THEN S ELSE ReachableIds(T)

\* C6: tree_shaker returns exactly the ids reachable from the entry points
\* by following dependency edges zero or more times.
C6_ExactlyReachable ==
    tsPc = "done" => reachable = ReachableIds(Range(entry_points))

\* entry {a}, a -> b, c unreferenced: tree_shaker has returned {a, b}
C6_Witness ==
    /\ tsPc = "done"
    /\ entry_points = <<"a">>
    /\ DOMAIN nodes = {"a", "b", "c"}
    /\ nodes["a"] = {"b"} /\ nodes["b"] = {} /\ nodes["c"] = {}
    /\ reachable = {"a", "b"}

\* a second or later build of bundler.rs or of splitter.rs has ended
BundlerRebuilt == run >= 2 /\ bPc \in {"done", "error"}
SplitRebuilt == run >= 2 /\ sPc \in {"done", "error"}

\* C7 as stated: a second build on the unchanged input writes the same
\* bytes as the first: the bundle of bundler.rs, and the rewritten files,
\* chunk files and manifest of splitter.rs.
C7_ByteIdentical ==
    /\ BundlerRebuilt => bOut = bPrevOut
    /\ SplitRebuilt => dist = sPrev.dist /\ manifest = sPrev.manifest

\* a text or a manifest with the random part of every chunk name erased
EraseName(x) ==
    IF Len(x) = 3 /\ x[1] = "chunk" THEN <<"chunk", "*", x[3]>> ELSE x
EraseText(code) ==
    [i \in 1..Len(code) |->
        IF code[i][1] = "load" THEN <<"load", EraseName(code[i][2])>>
        ELSE code[i]]
EraseManifest(m) ==
    IF m = NoFile THEN NoFile
    ELSE [i \in 1..Len(m) |->
            <<EraseName(m[i][1]),
              [j \in 1..Len(m[i][2]) |->
                  IF j = 3 THEN EraseName(m[i][2][j]) ELSE m[i][2][j]]>>]
\* the rewritten source files of an output directory, names erased
Rewritten(dir) ==
    [q \in {x \in DOMAIN dir : Len(x) = 2} |-> EraseText(dir[q])]

\* C7: a second build on the unchanged input writes the same bundle as the
\* first (bundler.rs), and the same rewritten files and manifest up to the
\* random part of the chunk names (splitter.rs).
C7_IdenticalUpToChunkNames ==
    /\ BundlerRebuilt => bOut = bPrevOut
    /\ SplitRebuilt =>
          /\ Rewritten(dist) = Rewritten(sPrev.dist)
          /\ EraseManifest(manifest) = EraseManifest(sPrev.manifest)

\* a second build over two glob entries, one inlining an import, has
\* written its bundle
C7_Witness ==
    /\ run = 2 /\ bPc = "done" /\ Len(entries) >= 2
    /\ bOut # NoFile /\ bOut = bPrevOut
    /\ \E n \in Names : fs[n].imports # <<>> /\ Count(Body(n), bOut) >= 1

\* what Bundler::bundle leaves behind
BuildResult ==
    [outcome |-> mainPc, bundle |-> eOut, cache |-> cache,
     graph |-> dependency_graph]

\* what the build with one worker leaves behind: the worker processes the
\* entry; bundle panics when the worker did, and otherwise stays in join
SingleWorkerResult ==
    [outcome |-> IF CanRead(EntryFile) /\ fs[EntryName].imports # <<>>
                 THEN "panicked" ELSE "join",
     bundle |-> NoFile,
     cache |-> IF CanRead(EntryFile)
               THEN [q \in {EntryFile} |-> FileText(EntryName)] ELSE <<>>,
     graph |-> IF CanRead(EntryFile) /\ fs[EntryName].imports # <<>>
               THEN [q \in {EntryFile} |->
                       {resolve_import(EntryFile, t) :
                            t \in Range(fs[EntryName].imports)}]
               ELSE <<>>]

SingleWorkerResultHolds ==
    (BundleQuiescent /\ max_threads = 1) => BuildResult = SingleWorkerResult

C9_BundleInDiscoveryOrder ==
    (BundleQuiescent /\ max_threads >= 1 /\ AllReadable) =>
        /\ eOut # NoFile
        /\ Comments(eOut) = Assemble(DiscoveryOrder)

\* C10: when the read of a module failed, the build ends in failure and
\* no output file is written.
C10_ReadFailureFailsBuild ==
    (BundleQuiescent /\ max_threads >= 1 /\ errors # <<>>) =>
        mainPc = "panicked" /\ eOut = NoFile

\* the import references of the bundled modules whose target does not
\* exist, each as <<module, index of the import statement>>
UnresolvedRefs ==
    {r \in Closure(pattern) \X (1..Len(NameOrder) * MaxImports) :
        /\ fs[r[1]].status = "ok"
        /\ r[2] <= Len(fs[r[1]].imports)
        /\ fs[fs[r[1]].imports[r[2]]].status = "missing"}

\* the exit status of bundler.rs: main returns Ok(()) or the io::Error
ExitStatus == IF bPc = "error" THEN 1 ELSE 0

\* what bundle_js_file records of an import whose target does not exist:
\* the `if import_full_path.exists()` has no else branch
DroppedEdges == <<>>

\* C11: a build of bundler.rs in which exactly one import reference has no
\* target runs to completion and ends with a non-zero exit status or a
\* non-zero count of recorded dropped edges.
C11_DroppedEdgeReported ==
    (bPc = "done" /\ Cardinality(UnresolvedRefs) = 1) =>
        (ExitStatus # 0 \/ Len(DroppedEdges) # 0)

\* the import references split_code makes a chunk of: <<file, index of the
\* import statement>>, the target existing with extension css, html or js
ChunkRefs ==
    {r \in split_seen \X (1..Len(NameOrder) * MaxImports) :
        /\ r[2] <= Len(fs[r[1]].imports)
        /\ fs[fs[r[1]].imports[r[2]]].status # "missing"
        /\ Ext(fs[r[1]].imports[r[2]]) \in {"css", "html", "js"}}

Bijections(S, T) ==
    {f \in [S -> T] :
        /\ \A x, y \in S : x # y => f[x] # f[y]
        /\ \A z \in T : \E x \in S : f[x] = z}

\* C12: when split_code has returned, every import reference whose target
\* exists with extension css, html or js has a (chunk name, chunk path)
\* record of its own; the chunk file at that path, in the folder of the
\* target's kind, holds the target's content, and the written content of
\* the parent has loadChunk('<that chunk name>') in the statement's place.
C12_EveryImportChunked ==
    sPc = "done" =>
        \E f \in Bijections(ChunkRefs, DOMAIN chunk_metadata) :
            \A r \in ChunkRefs :
                LET t == fs[r[1]].imports[r[2]]
                    rec == chunk_metadata[f[r]]
                IN /\ rec[2] = ChunkPath(Ext(t), rec[1])
                   /\ rec[2] \in DOMAIN dist
                   /\ dist[rec[2]] = FileText(t)
                   /\ OutputFilePath(r[1]) \in DOMAIN dist
                   /\ dist[OutputFilePath(r[1])][r[2]] = ChunkLoader(rec[1])

\* two chunks of the build were given the same name
NameCollision(metadata) ==
    \E i, j \in DOMAIN metadata : i < j /\ metadata[i][1] = metadata[j][1]

\* C13: a build in which two chunks were given the same generated name has
\* failed, and the manifest never lists one chunk name twice.
C13_CollisionIsFatal ==
    /\ NameCollision(chunk_metadata) => sPc = "error"
    /\ manifest # NoFile => ~NameCollision(manifest)

\* the chunk files created so far, in the order of their creation
ChunkWrites == SelectSeq(sWrites, LAMBDA q : Len(q) = 3)

\* C14: the manifest is written at most once in a build and not before
\* split_code has returned; in a build that completes it is written exactly
\* once, as the last file of the build, and its lines are the
\* <chunk name>: <chunk path> of the chunk files in the order of creation.
C14_ManifestOnceAfterChunks ==
    /\ Count(ManifestPath, sWrites) <= 1
    /\ sPc # "done" => manifest = NoFile /\ Count(ManifestPath, sWrites) = 0
    /\ sPc = "done" =>
          /\ Count(ManifestPath, sWrites) = 1
          /\ sWrites[Len(sWrites)] = ManifestPath
          /\ Len(manifest) = Len(ChunkWrites)
          /\ \A i \in 1..Len(manifest) :
                /\ manifest[i][2] = ChunkWrites[i]
                /\ manifest[i][1] = ChunkWrites[i][3]

\* a completed build that made two chunks with different names
C14_Witness ==
    /\ sPc = "done" /\ Len(manifest) = 2
    /\ manifest[1][1] # manifest[2][1]
    /\ sWrites[Len(sWrites)] = ManifestPath

\* a document whose six fields are present with the expected JSON types,
\* the version being 2 or 3
WellFormed(doc) ==
    /\ MapFields \subseteq DOMAIN doc
    /\ doc["version"].t = "number" /\ doc["version"].v \in {<<"2">>, <<"3">>}
    /\ doc["file"].t = "string"
    /\ doc["sources"].t = "array"
    /\ doc["sourcesContent"].t = "array"
    /\ doc["names"].t = "array"
    /\ doc["mappings"].t = "string"

\* the messages of validate_source_map's InvalidData errors
MalformedErrors ==
    {"Unsupported source map version", "Missing or invalid file field",
     "Missing or invalid sources field",
     "Missing or invalid sourcesContent field",
     "Missing or invalid names field", "Missing or invalid mappings field"}

\* C15: validate_source_map returns Ok exactly for the documents whose
\* version is the number 2 or 3, whose file and mappings are strings and
\* whose sources, sourcesContent and names are arrays; every other document
\* is rejected with an InvalidData error naming the offending field.
C15_ValidateIffWellFormed ==
    (smPc = "validated" /\ mapFile # NoDoc) =>
        /\ verdict = "Ok" <=> WellFormed(mapFile)
        /\ verdict # "Ok" => verdict \in MalformedErrors

\* a document that lacks only its mappings field has been rejected
C15_Witness ==
    /\ smPc = "validated"
    /\ DOMAIN mapFile = MapFields \ {"mappings"}
    /\ mapFile["version"] = JNumber("3") /\ mapFile["file"].t = "string"
    /\ mapFile["sources"].t = "array" /\ mapFile["names"].t = "array"
    /\ mapFile["sourcesContent"].t = "array"
    /\ verdict = "Missing or invalid mappings field"

AllValid(docs) == \A i \in 1..Len(docs) : WellFormed(docs[i])

NoDuplicates(seq) ==
    \A i, j \in 1..Len(seq) : i # j => seq[i] # seq[j]

RECURSIVE Concatenated(_)
Concatenated(docs) ==
    IF docs = <<>> THEN <<>>
    ELSE docs[1]["mappings"].v \o Concatenated(Tail(docs))

\* C16: merge_source_maps on valid documents returns a document whose
\* sources and names have no duplicates and hold exactly the elements of
\* the inputs' lists, whose mappings is the inputs' mappings strings
\* concatenated in input order, and whose file is "merged.js".
C16_MergeUnionsAndConcatenates ==
    (smPc = "merged" /\ AllValid(maps)) =>
        /\ NoDuplicates(mapFile["sources"].v)
        /\ Range(mapFile["sources"].v) =
              UNION {Range(maps[i]["sources"].v) : i \in 1..Len(maps)}
        /\ NoDuplicates(mapFile["names"].v)
        /\ Range(mapFile["names"].v) =
              UNION {Range(maps[i]["names"].v) : i \in 1..Len(maps)}
        /\ mapFile["mappings"] = JString(Concatenated(maps))
        /\ mapFile["file"] = JString(<<"merged.js">>)

\* two valid documents that share a source and differ in their mappings
\* have been merged
C16_Witness ==
    /\ smPc = "merged" /\ Len(maps) = 2 /\ AllValid(maps)
    /\ maps[1]["sources"].v = <<"s1", "s2">> /\ maps[2]["sources"].v = <<"s1">>
    /\ maps[1]["mappings"].v = <<"B", ";">> /\ maps[2]["mappings"].v = <<"A">>
    /\ mapFile["mappings"].v = <<"B", ";", "A">>
    /\ Len(mapFile["sources"].v) = 2

\* C17: the source map Bundler::bundle writes is accepted by
\* validate_source_map: it has version 3, file, sources, sourcesContent,
\* names and mappings with the expected JSON types.
C17_GeneratedMapValidates ==
    (mainPc = "done" /\ generate_sourcemaps) =>
        validate_source_map(eMapOut) = "Ok"

\* the groups of a mappings string: the tokens between the ';' separators
RECURSIVE SplitGroups(_)
SplitGroups(tokens) ==
    IF tokens = <<>> THEN <<>>
    ELSE LET seps == {i \in 1..Len(tokens) : tokens[i] = ";"}
             k == IF seps = {} THEN Len(tokens) + 1
                  ELSE CHOOSE i \in seps : \A j \in seps : i <= j
         IN <<SubSeq(tokens, 1, k - 1)>>
                \o SplitGroups(SubSeq(tokens, k + 1, Len(tokens)))

\* the segments of a group, each as the texts of its four numbers: a
\* segment is  line ':' column ',' column ',' name  and a ',' separates two
SegmentsOf(group) ==
    [k \in 1..((Len(group) + 1) \div 8) |->
        <<group[8 * (k - 1) + 1], group[8 * (k - 1) + 3],
          group[8 * (k - 1) + 5], group[8 * (k - 1) + 7]>>]

IsGroup(group) ==
    /\ (Len(group) + 1) % 8 = 0
    /\ \A i \in 1..Len(group) :
          /\ i % 8 = 2 => group[i] = ":"
          /\ i % 8 \in {4, 6, 0} => group[i] = ","

\* the numbers a segment encodes for a mapping
Encoded(m) ==
    <<ToString(m.original_line), ToString(m.original_column),
      ToString(m.generated_column),
      IF m.name_index = <<>> THEN "0" ELSE ToString(m.name_index[1])>>

\* C18: the string generate_mappings_string returns has one group per
\* generated line that has a mapping; the group of a line holds one
\* segment per mapping of that line, in the order the mappings were
\* recorded, each encoding the mapping's original line, original column,
\* generated column and name index (0 when there is none); so no mapping
\* is lost or duplicated.
C18_SegmentsGroupedInRecordedOrder ==
    smPc = "generated" =>
        LET groups == SplitGroups(mapFile["mappings"].v)
            keys == GeneratedLines(mappings)
        IN /\ Len(groups) = Cardinality(keys)
           /\ \A i \in 1..Len(groups) : IsGroup(groups[i])
           /\ \E o \in Orders(keys) :
                \A i \in 1..Len(groups) :
                    LET g == SelectSeq(mappings,
                                LAMBDA m : m.generated_line = o[i])
                    IN SegmentsOf(groups[i]) =
                          [j \in 1..Len(g) |-> Encoded(g[j])]

\* three mappings, two of them on one generated line, have been serialized
C18_Witness ==
    /\ smPc = "generated" /\ Len(mappings) = 3
    /\ mappings[1].generated_line = 1 /\ mappings[2].generated_line = 2
    /\ mappings[3].generated_line = 1
    /\ mappings[1].original_line = 2 /\ mappings[3].original_line = 1
    /\ Len(SplitGroups(mapFile["mappings"].v)) = 2

\* C19: the path resolve_path resolves an import reference to lies in the
\* parent directory of the referencing module for a reference starting
\* with ./, in the directory above it for one starting with ../, and in the
\* configured search path for a bare reference.
C19_RelativeToParentBareToSearchPath ==
    (rPc = "env" /\ r_import_path.form # "nomatch") =>
        r_resolved_path.dir =
            (IF r_import_path.form = "./" THEN "base_dir"
             ELSE IF r_import_path.form = "../" THEN "base_dir/.."
             ELSE config.paths)

\* the literally resolved path of the import reference: directory and file
\* name as written, the fragment made part of the name
LiteralResolved ==
    IF r_import_path.form = "nomatch"
    THEN [dir |-> "base_dir", stem |-> <<"@">>, ext |-> "", canonical |-> FALSE]
    ELSE IF r_import_path.fragment # ""
    THEN SetFragmentExtension(LiteralPath(r_import_path), r_import_path.fragment)
    ELSE LiteralPath(r_import_path)

\* the configured fallback extensions under which a file exists, in the
\* configured order
ExistingFallbacks ==
    SelectSeq(config.extensions, LAMBDA ext : rfs[ext] # "none")

\* C20 as stated: when no file exists at the literally resolved path,
\* resolve_path returns the path with the first configured fallback
\* extension under which a file exists, and returns no path when there is
\* none.
C20_FirstExistingFallback ==
    (rPc = "returned" /\ config.loaded /\ ~PathExists(LiteralResolved)) =>
        resolved = (IF ExistingFallbacks # <<>>
                    THEN set_extension(LiteralResolved, ExistingFallbacks[1])
                    ELSE NoPath)

\* C20: when the pattern matches the import reference, RESOLVED_PATH is
\* not set and no file exists at the literally resolved path, resolve_path
\* takes the first configured fallback extension under which a file
\* exists; it returns that path if it is a regular file that is not
\* read-only, and the empty string if it is not or if there is none.
C20_FirstExistingFallbackIfSafe ==
    (/\ rPc = "returned" /\ config.loaded
     /\ r_import_path.form # "nomatch" /\ env_path = "unset"
     /\ ~PathExists(LiteralResolved)) =>
        resolved = (IF ExistingFallbacks # <<>>
                       /\ rfs[ExistingFallbacks[1]] = "file"
                    THEN set_extension(LiteralResolved, ExistingFallbacks[1])
                    ELSE NoPath)

\* "./utils" with the fallbacks ts, js, both utils.ts and utils.js being
\* files and utils not: utils.ts has been returned
C20_Witness ==
    /\ rPc = "returned" /\ env_path = "unset"
    /\ r_import_path = [form |-> "./", ext |-> "", fragment |-> ""]
    /\ config.loaded /\ config.extensions = <<"ts", "js">>
    /\ rfs[""] = "none" /\ rfs["js"] = "file" /\ rfs["ts"] = "file"
    /\ resolved = [dir |-> "base_dir", stem |-> <<"utils">>, ext |-> "ts",
                   canonical |-> FALSE]

\* the importing file lies in the project root directory: what resolves
\* into the directory above it is outside the project root
OutsideRoot(path) == path.dir = "base_dir/.."

\* C21: resolve_path returns no path (resolution rejected) for every import
\* whose resolved path lies outside the project root and for every resolved
\* path that does not exist or fails the permission check, and returns the
\* path only when neither is the case.
C21_RejectsOutsideRootOrUnsafe ==
    (rPc = "returned" /\ config.loaded) =>
        (resolved = NoPath <=>
            \/ OutsideRoot(r_resolved_path)
            \/ ~PathExists(r_resolved_path)
            \/ ~verify_path_security(r_resolved_path))

\* the paths of the import statements written in the syntax of a kind, in
\* the order of the statements
ReferencesOf(stmts, ext) ==
    LET own == SelectSeq(stmts, LAMBDA st : st.syntax = ext)
    IN [i \in 1..Len(own) |-> <<own[i].path>>]

\* the file holds no import statement in the syntax of another kind
OwnSyntaxOnly == \A i \in 1..Len(scanCode) :
    scanCode[i].syntax \in {scanKind, "text"}

\* C22: scanning a file of one kind yields the paths of the import
\* statements written in that kind's syntax (import "path"; in JS,
\* @import "path"; in CSS, <link rel="import" href="path"> in HTML,
\* "$import": "path" in JSON), in the order they appear in the content.
C22_OwnSyntaxRecognized ==
    (scanPc = "done" /\ OwnSyntaxOnly) =>
        scanned = ReferencesOf(scanCode, scanKind)

\* what resolve_path returns for an import reference when it is the only
\* call running
SequentialResult(imp) ==
    IF config.loaded
    THEN Secured(Overridden(PatternBranch(imp, config)))
    ELSE NoPath

\* C23: no step of resolve_path changes the configuration file, the file
\* system or the environment of the process, and every call made while
\* other workers are making calls returns what the same call returns when
\* made alone.
C23_NoSharedWriteSameAsSequential ==
    /\ [][UNCHANGED <<config, rfs, env_path>>]_vars
    /\ [](\A w \in Callers :
            callPc[w] = "returned" =>
                call_resolved[w] = SequentialResult(call_import_path[w]))

\* one call has returned a path while the other call is between the
\* pattern branch and its own return
C23_Witness ==
    /\ callPc["w1"] = "returned" /\ call_resolved["w1"] # NoPath
    /\ callPc["w2"] = "env"
    /\ call_import_path["w1"] # call_import_path["w2"]

\* a worker is about to call read_and_transform_file for a path the cache
\* holds an entry for
CacheHit(w) ==
    /\ wpc[w] = "process"
    /\ wtask[w].file_path \notin wtask[w].visited
    /\ wtask[w].file_path \in DOMAIN cache

\* C24: read_and_transform_file looks into the cache first: when the cache
\* holds an entry for the path it returns that entry, and the file is not
\* read, the plugins are not called and the cache is not written.
C24_CacheHitShortCircuits ==
    [][\A w \in Workers :
        (CacheHit(w) /\ wpc'[w] # wpc[w]) =>
            /\ wpc'[w] = "scan"
            /\ wtask'[w].content = cache[wtask[w].file_path]
            /\ UNCHANGED <<cache, transformed, inserted, errors>>]_vars

\* the second call of bundle has taken the entry file's content from the
\* cache: the file was read, transformed and inserted once, by the first
C24_Witness ==
    /\ run = 2
    /\ \E w \in Workers :
          /\ wpc[w] = "scan"
          /\ wtask[w].file_path = EntryFile
          /\ wtask[w].content = cache[EntryFile]
    /\ transformed = <<EntryFile>> /\ inserted = <<EntryFile>>
    /\ errors = <<>>

\* a worker holds a task whose file cannot be read and is not in the cache
FailingTask(w) ==
    /\ wpc[w] \in {"process", "read"}
    /\ wtask[w].file_path \notin DOMAIN cache
    /\ ~CanRead(wtask[w].file_path)

\* C25: a task whose file cannot be read ends with an error, reported by
\* its worker, which goes back to receiving tasks; no step of the task
\* changes the cache, the dependency graph or the recorded mappings, or the
\* position or the task of another worker.
C25_ReadFailureLeavesSharedState ==
    [][\A w \in Workers :
        (FailingTask(w) /\ wpc'[w] # wpc[w]) =>
            /\ UNCHANGED <<cache, dependency_graph, mapped, inserted>>
            /\ \A v \in Workers \ {w} :
                  wpc'[v] = wpc[v] /\ wtask'[v] = wtask[v]
            /\ wpc[w] = "read" =>
                  /\ wpc'[w] = "recv"
                  /\ errors' = Append(errors, wtask[w].file_path)]_vars

\* the read of the entry file has failed and both workers are receiving
C25_Witness ==
    /\ max_threads = 2 /\ run = 1
    /\ errors = <<EntryFile>>
    /\ \A w \in 1..max_threads : wpc[w] = "recv"
    /\ cache = <<>> /\ dependency_graph = <<>> /\ mapped = <<>>

\* the tasks of a queue that are for one path
TasksFor(q, path) == Cardinality({i \in 1..Len(q) : q[i].file_path = path})

\* the identities a task has been enqueued for in this build: those of the
\* queued tasks, of the tasks being processed and of the tasks that ended
\* with their file transformed or unreadable
Enqueued ==
    {queue[i].file_path : i \in 1..Len(queue)}
    \cup {wtask[w].file_path : w \in {v \in Workers : wtask[v] # NoTask}}
    \cup Range(transformed) \cup Range(errors)

\* how many times process has dealt with a path
TimesProcessed(path) == Count(path, transformed) + Count(path, errors)

Successors(S) ==
    UNION {nodes[n] : n \in S \cap DOMAIN nodes}

\* the identities reachable from an identity through one or more edges
RECURSIVE ReachFrom(_)
ReachFrom(S) ==
    LET T == S \cup Successors(S)
    IN IF T = S THEN S ELSE ReachFrom(T)
OnCycle(n) == n \in ReachFrom(Successors({n}))

\* C27: detect_cycles returns exactly the identities that are reachable
\* from themselves through one or more dependency edges, and the graph is
\* what it was.
C27_FlagsExactlyCycleMembers ==
    dcPc = "done" => cycles = {n \in Names : OnCycle(n)}

\* C28: when a build has come to rest, add_mapping has been called exactly
\* once for every module that was transformed, whatever the number of its
\* import references.
C28_OneMappingPerModule ==
    BundleQuiescent =>
        \A path \in Range(transformed) : Count(path, mapped) = 1

\* the sourcesContent of a document holds, for every source in order, the
\* content that came with that source in the documents merged
ContentsFollowSources(doc) ==
    LET so == as_array(Field(doc, "sources"))
        sc == as_array(Field(doc, "sourcesContent"))
    IN /\ Len(sc) = Len(so)
       /\ \A i \in 1..Len(so) : sc[i] = <<"content of", so[i]>>

\* C29: in the document generate_source_map writes and in the document
\* merge_source_maps returns, sourcesContent is as long as sources and its
\* i-th element is the content of the i-th source.
C29_ContentsParallelToSources ==
    /\ (smPc = "generated"
        /\ Len(genArgs.sources) = Len(genArgs.sources_content)) =>
            /\ as_array(Field(mapFile, "sources")) = genArgs.sources
            /\ as_array(Field(mapFile, "sourcesContent"))
                    = genArgs.sources_content
    /\ (smPc = "merged" /\ maps # <<>>
        /\ \A i \in 1..Len(maps) : ContentsFollowSources(maps[i])) =>
            ContentsFollowSources(mapFile)

\* a document whose sources, sourcesContent or names is not an array, or
\* whose mappings is not a string
Malformed(doc) ==
    \/ \E k \in {"sources", "sourcesContent", "names"} :
          Field(doc, k).t # "array"
    \/ Field(doc, "mappings").t # "string"

\* C30: merge_source_maps given a malformed document fails and produces
\* no merged document.
C30_MergeRejectsMalformed ==
    (smPc = "merged" /\ \E i \in 1..Len(maps) : Malformed(maps[i])) =>
        mapFile = NoDoc

\* the tokens of a mappings string with every run of separators reduced to
\* one separator
RECURSIVE CollapsedRuns(_)
CollapsedRuns(tokens) ==
    IF Len(tokens) < 2 THEN tokens
    ELSE IF tokens[1] = ";" /\ tokens[2] = ";"
         THEN CollapsedRuns(Tail(tokens))
         ELSE <<tokens[1]>> \o CollapsedRuns(Tail(tokens))

\* C31: compress_source_map reduces every run of two or more ';' separators
\* of the mappings string to a single separator, keeps the non-empty groups
\* and their order, and leaves every other field of the document as it was.
C31_CollapsesEmptyGroupRuns ==
    smPc = "compressed" =>
        /\ as_str(Field(compressedFile, "mappings")) =
              CollapsedRuns(as_str(Field(mapFile, "mappings")))
        /\ DOMAIN compressedFile \ {"mappings"} = DOMAIN mapFile \ {"mappings"}
        /\ \A k \in DOMAIN mapFile \ {"mappings"} : compressedFile[k] = mapFile[k]

\* the elements of a set of numbers in ascending order
Ascending(S) ==
    CHOOSE o \in Orders(S) : \A i \in 1..Len(o), j \in 1..Len(o) : i < j => o[i] < o[j]

\* C38: generate_mappings_string is a function of the list of mappings: the
\* string it returns holds the per-line groups in ascending generated-line
\* order, whatever order the hash map is iterated in.
C38_GroupsInAscendingLineOrder ==
    smPc = "generated" =>
        mapFile["mappings"].v =
            generate_mappings_string(mappings, Ascending(GeneratedLines(mappings)))

C36_PrunedIsClosedRestriction ==
    /\ [](tsPc = "pruned" =>
            /\ DOMAIN pruned_nodes =
                  DOMAIN nodes \cap ReachableIds(Range(entry_points))
            /\ \A id \in DOMAIN pruned_nodes : pruned_nodes[id] = nodes[id]
            /\ \A id \in DOMAIN pruned_nodes :
                  pruned_nodes[id] \cap DOMAIN nodes \subseteq DOMAIN pruned_nodes)
    /\ [][nodes' = nodes]_vars

\* entry {b}, b -> {b, c}, c not a node, a unreferenced: the pruned graph
\* keeps b with its dependency on c and drops a
C36_Witness ==
    /\ tsPc = "pruned"
    /\ entry_points = <<"b">>
    /\ DOMAIN nodes = {"a", "b"}
    /\ nodes["a"] = {} /\ nodes["b"] = {"b", "c"}
    /\ DOMAIN pruned_nodes = {"b"}
    /\ pruned_nodes["b"] = {"b", "c"}

\* C37: detect_cycles returns a non-empty set exactly when the graph has a
\* cycle, a self-dependency included, in whatever order the map of nodes and
\* the dependency sets are iterated; every identity it returns is on a cycle.
C37_NonEmptyIffCyclic ==
    dcPc = "done" =>
        /\ cycles # {} <=> \E n \in Names : OnCycle(n)
        /\ \A n \in cycles : OnCycle(n)

\* a depends on itself and on b, b on nothing: detect_cycles returned {a}
C37_Witness ==
    /\ dcPc = "done"
    /\ DOMAIN nodes = {"a", "b"}
    /\ nodes["a"] = {"a", "b"} /\ nodes["b"] = {}
    /\ cycles = {"a"}

\* C33: however often and from however many threads start_cleanup_thread
\* is called on one WebCache, at most one cleanup thread is spawned for it.
C33_AtMostOneCleanupThread == cleanup_threads <= 1

\* start_cleanup_thread has been called twice or more and nothing else,
\* every call has returned, and one cleanup thread runs
C33_Witness ==
    /\ cleanup_threads = 1
    /\ cleanup_running
    /\ wcCalls >= 2
    /\ requests = [u \in Urls |-> 0]
    /\ \A t \in WebThreads : wcPc[t] = "idle"
    /\ running_lock = "free"

\* the entries a step takes out of the cache
Dropped == {e \in web_cache : e.url \notin Keys(web_cache')}

\* C32: after any sequence of WebCache operations the cache holds at most
\* `capacity` entries, and an entry that is evicted (by fetch or by
\* set_capacity) is no younger than any entry that stays.
C32_CacheWithinCapacity ==
    /\ [](Cardinality(web_cache) <= capacity)
    /\ [][wcLast' \in {"fetch", "set_capacity"} =>
            \A e \in Dropped : \A k \in web_cache' :
                e.timestamp <= k.timestamp]_vars

\* C39: after any sequence of WebCache operations the history holds at most
\* `capacity` urls, also after set_capacity lowers the capacity.
C39_HistoryWithinCapacity == Len(history) <= capacity

\* C40 as stated: when the threads fetch the same url and no entry expires,
\* one request is made for it and every call returns the body it stored.
C40_OneRequestPerUrl ==
    now < ttl =>
        /\ requests[TestUrl] <= 1
        /\ \A t \in WebThreads :
              wcRet[t] # <<>> =>
                  /\ requests[TestUrl] = 1
                  /\ wcRet[t] = <<1>>

\* C40: when the threads fetch the same url from a WebCache of capacity one
\* or more and no entry expires, one request is made for it, the cache keeps
\* its response, and every call that returns, returns the body of that
\* response; no second thread misses the cache.
C40_OneRequestPerUrlWithRoom ==
    (now < ttl /\ capacity >= 1) =>
        /\ requests[TestUrl] <= 1
        /\ \A t \in WebThreads :
              wcRet[t] # <<>> =>
                  /\ requests[TestUrl] = 1
                  /\ wcRet[t] = <<1>>
                  /\ TestUrl \in Keys(web_cache)
                  /\ Cached(web_cache, TestUrl).body = 1

\* both threads have fetched the url, one from the network and one from the
\* cache
C40_Witness ==
    /\ now < ttl /\ capacity >= 1
    /\ requests[TestUrl] = 1
    /\ \A t \in WebThreads : wcRet[t] = <<1>> /\ wcPc[t] = "idle"
    /\ history = <<TestUrl, TestUrl>>

\* C34: after a SIGINT is delivered, main's loop eventually sees the
\* cleared flag, prints the shutdown message and exits, also when no
\* further file-system event arrives (in a run where no event's command
\* fails to start, which would end main by a panic).
C34_SigintShutsDown ==
    (delivered > 0 /\ command # "missing") ~> (hrPc = "exited")

====
